---- MODULE Spec2Model ----
(***************************************************************************)
(* Model of the Cultura CDMX scraper: the retry policy (_retry_async,      *)
(* _retry_sync), the detail extraction (scrape_inner_page), the sequential *)
(* page crawl (scrape_page_sequential) and the per-card-context crawl      *)
(* (scrape_page_cards / scrape_card_on_page).                              *)
(*                                                                         *)
(* Durations are in tenths of a second (base_delay 0.6 is 6).              *)
(***************************************************************************)
EXTENDS Integers, Sequences, FiniteSets, TLC

\* ------------------------------------------------------------------ bounds
\* Largest max_attempts the retry policy is run with in SpecRetry.
MaxRetries == 3
\* Largest number of cards a listing page shows.
MaxCards == 2
\* Largest page_number crawled.
MaxPage == 2
\* Largest retries argument scrape_inner_page is run with in SpecInner.
MaxInnerRetries == 3
\* Largest capacity the card semaphore is created with.
MaxSlots == 2

\* ------------------------------------------------------------------ errors
\* An exception is one of these kinds; str(exc) is modelled by the set of
\* phrases the message contains, its class by IsPlaywrightTimeout.
Errors == {"TimeoutError", "ContextDestroyed", "NavigationFailed", "TargetClosed", "Other"}

ErrText(exc) ==
    CASE exc = "TimeoutError"     -> {"Timeout", "exceeded"}
      [] exc = "ContextDestroyed" -> {"Execution context was destroyed", "most likely because of a navigation"}
      [] exc = "NavigationFailed" -> {"Navigation failed"}
      [] exc = "TargetClosed"     -> {"Target page, context or browser has been closed"}
      [] OTHER                    -> {"net::ERR_CONNECTION_RESET"}

IsPlaywrightTimeout(exc) == exc = "TimeoutError"

RETRYABLE_ERROR_FRAGMENTS ==
    { "Execution context was destroyed",
      "Navigation failed",
      "Target page, context or browser has been closed",
      "Timeout" }

_is_retryable_error(exc) ==
    \E fragment \in RETRYABLE_ERROR_FRAGMENTS : fragment \in ErrText(exc)

\* ------------------------------------------------------------ retry policy
RECURSIVE Pow2(_)
Pow2(n) == IF n <= 0 THEN 1 ELSE 2 * Pow2(n - 1)

\* The retryable_predicate argument: None, or _is_retryable_error.
Predicates == {"None", "_is_retryable_error"}

PredicateRejects(pred, exc) ==
    pred # "None" /\ ~_is_retryable_error(exc)

\* A faulty variant: the last attempt is not recognised (off by one), so a retry is
\* scheduled after it.
RetryExceptNoLastCheck(attempt, retries, base_delay, pred, exc) ==
    IF PredicateRejects(pred, exc)
    THEN [act |-> "raise", delay |-> 0]
    ELSE IF attempt = retries + 1
         THEN [act |-> "raise", delay |-> 0]
         ELSE [act |-> "retry", delay |-> base_delay * Pow2(attempt - 1)]

\* A faulty variant: the predicate's verdict is ignored.
RetryExceptIgnorePredicate(attempt, retries, base_delay, pred, exc) ==
    IF attempt = retries
    THEN [act |-> "raise", delay |-> 0]
    ELSE [act |-> "retry", delay |-> base_delay * Pow2(attempt - 1)]

\* A faulty variant: the backoff exponent is attempt instead of attempt - 1.
RetryExceptWrongBackoff(attempt, retries, base_delay, pred, exc) ==
    IF PredicateRejects(pred, exc)
    THEN [act |-> "raise", delay |-> 0]
    ELSE IF attempt = retries
         THEN [act |-> "raise", delay |-> 0]
         ELSE [act |-> "retry", delay |-> base_delay * Pow2(attempt)]

\* The except branch of _retry_async's loop body, for the attempt that
\* raised exc: re-raise, or count, log and sleep before the next attempt.
_retry_async(attempt, retries, base_delay, pred, exc) ==
    IF PredicateRejects(pred, exc)
    THEN [act |-> "raise", delay |-> 0]
    ELSE IF attempt = retries
         THEN [act |-> "raise", delay |-> 0]
         ELSE [act |-> "retry", delay |-> base_delay * Pow2(attempt - 1)]

\* The same branch of _retry_sync (time.sleep instead of asyncio.sleep).
_retry_sync(attempt, retries, base_delay, pred, exc) ==
    IF PredicateRejects(pred, exc)
    THEN [act |-> "raise", delay |-> 0]
    ELSE IF attempt = retries
         THEN [act |-> "raise", delay |-> 0]
         ELSE [act |-> "retry", delay |-> base_delay * Pow2(attempt - 1)]

\* base_delay values the call sites pass (0.6 default, 0.7, 0.8).
BaseDelays == {6, 7, 8}

VARIABLES
    r_impl,      \* "async" (_retry_async) or "sync" (_retry_sync)
    r_retries,   \* the retries argument (max_attempts)
    r_base,      \* the base_delay argument
    r_pred,      \* the retryable_predicate argument
    r_attempt,   \* the loop variable attempt
    r_status,    \* "running", "returned" or "raised"
    r_outcomes,  \* outcome of each invocation of the operation, in order
    r_events,    \* the retry_scheduled log events, in order
    r_sleeps,    \* the backoff sleeps, in order
    r_metrics,   \* metrics["retry_attempts"]
    r_last_exc,  \* the local last_exc ("None" until an attempt raised)
    r_raised     \* the exception that left the function, or "none"

retryVars == <<r_impl, r_retries, r_base, r_pred, r_attempt, r_status,
               r_outcomes, r_events, r_sleeps, r_metrics, r_last_exc, r_raised>>

\* ------------------------------------------------------- event payloads
\* The null sentinel (Python None, JavaScript null or undefined) of a field.
Null == "null"

\* The fields the in-page read of playwright_card_scrape fills.
ExtractionFields ==
    {"description", "info", "schedule", "location", "banner_url", "evento", "recinto"}

\* The fields the in-page read of c_scraper_utils fills.
OldExtractionFields == {"description", "info", "schedule", "location"}

_empty_event_payload(detail_url) ==
    [ detail_url  |-> detail_url,
      description |-> Null,
      info        |-> Null,
      schedule    |-> Null,
      location    |-> Null,
      banner_url  |-> Null,
      evento      |-> Null,
      recinto     |-> Null ]

\* The literal all-null dict of c_scraper_utils.scrape_inner_page.
OldEmptyPayload ==
    [ description |-> Null, info |-> Null, schedule |-> Null, location |-> Null ]

\* What page.evaluate of the in-page read can hand back: None when the detail
\* container is missing, otherwise an object holding every extraction field,
\* each with its content or null.
NoneResult == [kind |-> "none", value |-> [f \in {} |-> Null]]

ObjectResult(fields, present) ==
    [kind |-> "object",
     value |-> [f \in fields |-> IF f \in present THEN "content" ELSE Null]]

EvalResults ==
    { NoneResult,
      ObjectResult(ExtractionFields, ExtractionFields),
      ObjectResult(ExtractionFields, {"description", "schedule", "evento"}),
      ObjectResult(ExtractionFields, {}) }

OldEvalResults ==
    { NoneResult,
      ObjectResult(OldExtractionFields, OldExtractionFields),
      ObjectResult(OldExtractionFields, {"description"}) }

\* Python truthiness of the value page.evaluate returned.
Truthy(r) == r.kind = "object" /\ DOMAIN r.value # {}

\* ------------------------------------------------------ scrape_inner_page
\* A faulty variant: an error that is not retryable is re-raised.
InnerExceptReraises(attempt, retries, exc) ==
    IF _is_retryable_error(exc) /\ attempt < retries
    THEN "retry"
    ELSE IF _is_retryable_error(exc) THEN "return_empty" ELSE "raise"

\* The except branch of playwright_card_scrape.scrape_inner_page (attempt
\* counts from 1).
scrape_inner_page_except(attempt, retries, exc) ==
    IF _is_retryable_error(exc) /\ attempt < retries
    THEN "retry"
    ELSE "return_empty"

\* The except branch of c_scraper_utils.scrape_inner_page: it retries on one
\* signature only and leaves the attempt limit to the for loop.
old_scrape_inner_page_except(attempt, retries, exc) ==
    IF "Execution context was destroyed" \in ErrText(exc)
    THEN "retry"
    ELSE "return_empty"

\* return data or _empty_event_payload()
InnerReturn(r) == IF Truthy(r) THEN r.value ELSE _empty_event_payload(Null)

\* return html_content or {...}
OldInnerReturn(r) == IF Truthy(r) THEN r.value ELSE OldEmptyPayload

VARIABLES
    in_variant,  \* "new" (playwright_card_scrape) or "old" (c_scraper_utils)
    in_retries,  \* the retries argument
    in_attempt,  \* passes of the for loop started so far
    in_reads,    \* outcome of each page.evaluate, in order
    in_status,   \* "running", "returned" or "raised"
    in_result    \* the dict returned

innerVars == <<in_variant, in_retries, in_attempt, in_reads, in_status, in_result>>

\* ------------------------------------------- scrape_page_sequential state
VARIABLES
    pc,             \* the await the crawl is suspended at
    page_number,    \* the page_number argument
    context_open,   \* browser.new_context() made and not yet closed
    card_count,     \* the local card_count (-1 before the count)
    i,              \* the loop variable of for i in range(card_count)
    results,        \* the list results
    metrics,        \* metrics["retry_attempts"], metrics["cards_failed"]
    attempt,        \* attempt of the _retry_async call in progress
    inner_attempt,  \* attempt of the scrape_inner_page call in progress
    raised,         \* the exception that left the crawl, or "none"
    hist            \* observations of the run, read by the properties only

seqVars == <<pc, page_number, context_open, card_count, i, results, metrics,
             attempt, inner_attempt, raised, hist>>

\* ---------------------------------- scrape_page_cards / scrape_card_on_page
VARIABLES
    strategy,      \* "sequential" or "per_card_context"
    p_pc,          \* the await scrape_page_cards is suspended at
    p_attempt,     \* attempt of its navigation loop
    p_context_open,\* the page task's context is open
    p_card_count,  \* its local card_count (-1 before the count)
    card,          \* card_index -> state of that scrape_card_on_page task
    card_sem,      \* free slots of card_sem
    sem_capacity,  \* the value card_sem was created with
    page_results,  \* the list gather returned
    saved          \* the list save_page_data wrote, <<>> when none

concVars == <<strategy, p_pc, p_attempt, p_context_open, p_card_count, card,
              card_sem, sem_capacity, page_results, saved>>

\* ---------------------------------------------- scrape_all_cards state
VARIABLES
    b_pc,        \* the await scrape_all_cards is suspended at
    b_browser,   \* "none", "running" or "closed"
    b_launches,  \* number of p.chromium.launch calls that returned
    b_raised,    \* an exception left scrape_all_cards
    b_last_page, \* the local last_page (0 before detect_last_page returned)
    b_page_cap,  \* the value page_sem was created with
    b_card_cap,  \* the value card_sem was created with
    b_page_sem,  \* free slots of page_sem
    b_card_sem,  \* free slots of card_sem
    b_page,      \* page_number -> state of that scrape_page_cards task
    b_card,      \* <<page_number, card_index>> -> state of that
                 \* scrape_card_on_page task
    b_saved      \* page_number -> number of records save_page_data wrote

batchVars == <<b_pc, b_browser, b_launches, b_raised, b_last_page, b_page_cap,
               b_card_cap, b_page_sem, b_card_sem, b_page, b_card, b_saved>>

\* -------------------------------------------------- Lambda handlers state
VARIABLES
    h_kind,   \* the handler invoked: "check", "crawl" or "merge"
    h_env,    \* os.environ: BUCKET_NAME and GITHUB_SECRET_ARN
    h_store,  \* the objects of the bucket: key -> body
    h_puts,   \* the writes made to the bucket, in order; those of the merge
              \* invocation in progress when a merge runs again
    h_check,  \* the invocation of cultura_check_page.handler
    h_crawl,  \* invocation -> state of that playwright_card_scrape.handler
    h_merge   \* the invocation of duckdb_handler.lambda_handler

lambdaVars == <<h_kind, h_env, h_store, h_puts, h_check, h_crawl, h_merge>>

\* The state of one scroll_to_bottom call.
VARIABLES
    s_pc,            \* "ticking" (the interval timer runs), "settle", "done"
    s_totalHeight,   \* totalHeight of the in-page script
    s_scrollHeight,  \* document.body.scrollHeight of the page, as it is now
    s_reads,         \* the scrollHeight each tick read, in order
    s_grows,         \* the times the page grew since the call
    s_waits          \* the calls of page.wait_for_timeout

scrollVars == <<s_pc, s_totalHeight, s_scrollHeight, s_reads, s_grows, s_waits>>

vars == <<retryVars, innerVars, seqVars, concVars, batchVars, lambdaVars, scrollVars>>

ScrollIdle ==
    /\ s_pc = "idle"
    /\ s_totalHeight = 0
    /\ s_scrollHeight = 0
    /\ s_reads = <<>>
    /\ s_grows = 0
    /\ s_waits = 0

LambdaIdle ==
    /\ h_kind = "none"
    /\ h_env = <<>>
    /\ h_store = <<>>
    /\ h_puts = <<>>
    /\ h_check = <<>>
    /\ h_crawl = <<>>
    /\ h_merge = <<>>

BatchIdle ==
    /\ b_pc = "idle"
    /\ b_browser = "none"
    /\ b_launches = 0
    /\ b_raised = FALSE
    /\ b_last_page = 0
    /\ b_page_cap = 0
    /\ b_card_cap = 0
    /\ b_page_sem = 0
    /\ b_card_sem = 0
    /\ b_page = <<>>
    /\ b_card = <<>>
    /\ b_saved = <<>>

ConcIdle ==
    /\ p_pc = "idle"
    /\ p_attempt = 0
    /\ p_context_open = FALSE
    /\ p_card_count = -1
    /\ card = <<>>
    /\ card_sem = 0
    /\ sem_capacity = 0
    /\ page_results = <<>>
    /\ saved = <<>>

SeqIdle ==
    /\ pc = "idle"
    /\ page_number = 0
    /\ context_open = FALSE
    /\ card_count = -1
    /\ i = 0
    /\ results = <<>>
    /\ metrics = [retry_attempts |-> 0, cards_failed |-> 0]
    /\ attempt = 0
    /\ inner_attempt = 0
    /\ raised = "none"
    /\ hist = [failed |-> {}, raised_at |-> "none", cyc_faults |-> 0,
               cyc_hard |-> FALSE, cyc_read |-> "none", retries_at_start |-> 0,
               cyc_data |-> FALSE]

InnerIdle ==
    /\ in_variant = "new"
    /\ in_retries = 0
    /\ in_attempt = 0
    /\ in_reads = <<>>
    /\ in_status = "idle"
    /\ in_result = NoneResult.value

RetryIdle ==
    /\ r_impl = "async"
    /\ r_retries = 0
    /\ r_base = 0
    /\ r_pred = "None"
    /\ r_attempt = 0
    /\ r_status = "idle"
    /\ r_outcomes = <<>>
    /\ r_events = <<>>
    /\ r_sleeps = <<>>
    /\ r_metrics = 0
    /\ r_last_exc = "None"
    /\ r_raised = "none"

RetryInit ==
    /\ r_impl \in {"async", "sync"}
    /\ r_retries \in 0..MaxRetries
    /\ r_base \in BaseDelays
    /\ r_pred \in Predicates
    /\ r_attempt = 1
    /\ r_status = "running"
    /\ r_outcomes = <<>>
    /\ r_events = <<>>
    /\ r_sleeps = <<>>
    /\ r_metrics = 0
    /\ r_last_exc = "None"
    /\ r_raised = "none"
    /\ InnerIdle
    /\ SeqIdle
    /\ strategy = "none"
    /\ ConcIdle
    /\ BatchIdle
    /\ LambdaIdle
    /\ ScrollIdle

RetryDecision(exc) ==
    IF r_impl = "async"
    THEN _retry_async(r_attempt, r_retries, r_base, r_pred, exc)
    ELSE _retry_sync(r_attempt, r_retries, r_base, r_pred, exc)

\* One pass of the loop body whose attempt returns.
RetryAttemptReturns ==
    /\ r_status = "running"
    /\ r_attempt <= r_retries
    /\ r_outcomes' = Append(r_outcomes, "ok")
    /\ r_status' = "returned"
    /\ UNCHANGED <<r_impl, r_retries, r_base, r_pred, r_attempt, r_events,
                   r_sleeps, r_metrics, r_last_exc, r_raised>>
    /\ UNCHANGED <<innerVars, seqVars, concVars, batchVars, lambdaVars, scrollVars>>

\* One pass of the loop body whose attempt raises exc.
RetryAttemptRaises ==
    /\ r_status = "running"
    /\ r_attempt <= r_retries
    /\ \E exc \in Errors :
         LET d == RetryDecision(exc) IN
         /\ r_outcomes' = Append(r_outcomes, exc)
         /\ r_last_exc' = exc
         /\ IF d.act = "raise"
            THEN /\ r_status' = "raised"
                 /\ r_raised' = exc
                 /\ UNCHANGED <<r_attempt, r_events, r_sleeps, r_metrics>>
            ELSE /\ r_metrics' = r_metrics + 1
                 /\ r_events' = Append(r_events, [attempt |-> r_attempt,
                                                  max_attempts |-> r_retries,
                                                  error |-> exc])
                 /\ r_sleeps' = Append(r_sleeps, d.delay)
                 /\ r_attempt' = r_attempt + 1
                 /\ UNCHANGED <<r_status, r_raised>>
    /\ UNCHANGED <<r_impl, r_retries, r_base, r_pred>>
    /\ UNCHANGED <<innerVars, seqVars, concVars, batchVars, lambdaVars, scrollVars>>

\* The loop ended without a return or a raise: the trailing raise last_exc.
\* With last_exc still None (retries = 0) Python raises a TypeError instead.
RetryLoopExhausted ==
    /\ r_status = "running"
    /\ r_attempt > r_retries
    /\ r_status' = "raised"
    /\ r_raised' = IF r_last_exc = "None" THEN "TypeError" ELSE r_last_exc
    /\ UNCHANGED <<r_impl, r_retries, r_base, r_pred, r_attempt, r_outcomes,
                   r_events, r_sleeps, r_metrics, r_last_exc>>
    /\ UNCHANGED <<innerVars, seqVars, concVars, batchVars, lambdaVars, scrollVars>>

RetryNext == RetryAttemptReturns \/ RetryAttemptRaises \/ RetryLoopExhausted

SpecRetry == RetryInit /\ [][RetryNext]_vars

\* An invocation of the operation that failed.
Failed(j) == r_outcomes[j] # "ok"

\* The error of invocation j matches none of the transient-fault signatures.
NonTransient(j) == ErrText(r_outcomes[j]) \cap RETRYABLE_ERROR_FRAGMENTS = {}

\* C5: under the retry policy with max_attempts = n >= 1 the operation is
\* invoked at most n times, never again after an attempt succeeded, and the
\* retry_scheduled events number the invocations minus one (one per retry,
\* the j-th carrying attempt j); metrics["retry_attempts"] counts the same.
C5_RetryBounded ==
    r_retries >= 1 =>
        /\ Len(r_outcomes) <= r_retries
        /\ \A j \in 1..(Len(r_outcomes) - 1) : Failed(j)
        /\ r_status # "running" => Len(r_events) = Len(r_outcomes) - 1
        /\ r_status = "running" => Len(r_events) = Len(r_outcomes)
        /\ \A j \in 1..Len(r_events) : r_events[j].attempt = j
        /\ r_metrics = Len(r_events)

\* Two retries, then the third and last permitted attempt succeeds.
C5_Witness ==
    /\ r_retries = 3
    /\ r_status = "returned"
    /\ Len(r_outcomes) = 3
    /\ Len(r_events) = 2

\* C6: an attempt failing with an error that matches no transient-fault
\* signature ends the run at once: it is the last invocation, its error is the
\* one raised, and no event or sleep follows it, whatever attempts remain.
C6_NonRetryablePropagates ==
    (r_retries >= 1 /\ r_pred = "_is_retryable_error") =>
        \A j \in 1..Len(r_outcomes) :
            (Failed(j) /\ NonTransient(j)) =>
                /\ j = Len(r_outcomes)
                /\ r_status = "raised"
                /\ r_raised = r_outcomes[j]
                /\ Len(r_events) = j - 1
                /\ Len(r_sleeps) = j - 1

\* A transient failure was retried, then a non-matching error ended the run
\* with one attempt still unused.
C6_Witness ==
    /\ r_pred = "_is_retryable_error"
    /\ r_retries = 3
    /\ r_outcomes = <<"TimeoutError", "Other">>
    /\ r_status = "raised"

\* The error of invocation j is one the policy retries.
Retried(j) == Failed(j) /\ (r_pred = "None" \/ ~NonTransient(j))

\* C7: the sleep after the k-th failed attempt, k < max_attempts, is
\* base_delay * 2^(k-1); the failure of the final attempt is followed by no
\* sleep and no event, and its error is raised to the caller.
C7_BackoffSchedule ==
    r_retries >= 1 =>
        /\ \A k \in 1..Len(r_sleeps) : r_sleeps[k] = r_base * 2^(k - 1)
        /\ \A k \in 1..Len(r_outcomes) :
              (Retried(k) /\ k < r_retries) => Len(r_sleeps) >= k
        /\ (Len(r_outcomes) = r_retries /\ Failed(r_retries)) =>
              /\ r_status = "raised"
              /\ r_raised = r_outcomes[r_retries]
              /\ Len(r_sleeps) = r_retries - 1
              /\ Len(r_events) = r_retries - 1

\* All three attempts failed with transient errors: two sleeps, then the raise.
C7_Witness ==
    /\ r_retries = 3
    /\ r_status = "raised"
    /\ Len(r_outcomes) = 3
    /\ Len(r_sleeps) = 2
    /\ \A k \in 1..3 : Retried(k)

\* --------------------------------------------- scrape_inner_page, alone
InnerInit ==
    /\ in_variant \in {"new", "old"}
    /\ in_retries \in 0..MaxInnerRetries
    /\ in_attempt = 0
    /\ in_reads = <<>>
    /\ in_status = "running"
    /\ in_result = NoneResult.value
    /\ RetryIdle
    /\ SeqIdle
    /\ strategy = "none"
    /\ ConcIdle
    /\ BatchIdle
    /\ LambdaIdle
    /\ ScrollIdle

InnerReads == IF in_variant = "new" THEN EvalResults ELSE OldEvalResults

\* A pass of the loop whose page.evaluate returns: the function returns the
\* value read, or the all-null payload when it is None.
InnerReadReturns ==
    /\ in_status = "running"
    /\ in_attempt < in_retries
    /\ \E r \in InnerReads :
         /\ in_reads' = Append(in_reads, r.kind)
         /\ in_result' = IF in_variant = "new" THEN InnerReturn(r) ELSE OldInnerReturn(r)
    /\ in_attempt' = in_attempt + 1
    /\ in_status' = "returned"
    /\ UNCHANGED <<in_variant, in_retries>>
    /\ UNCHANGED <<retryVars, seqVars, concVars, batchVars, lambdaVars, scrollVars>>

\* A pass of the loop whose page.evaluate raises exc. The new variant numbers
\* its attempts from 1, the old one from 0.
InnerReadRaises ==
    /\ in_status = "running"
    /\ in_attempt < in_retries
    /\ \E exc \in Errors :
         LET act == IF in_variant = "new"
                    THEN scrape_inner_page_except(in_attempt + 1, in_retries, exc)
                    ELSE old_scrape_inner_page_except(in_attempt, in_retries, exc)
         IN
         /\ in_reads' = Append(in_reads, exc)
         /\ CASE act = "retry" ->
                   /\ UNCHANGED <<in_status, in_result>>
              [] act = "return_empty" ->
                   /\ in_status' = "returned"
                   /\ in_result' = IF in_variant = "new"
                                   THEN _empty_event_payload(Null)
                                   ELSE OldEmptyPayload
              [] OTHER ->
                   /\ in_status' = "raised"
                   /\ UNCHANGED in_result
    /\ in_attempt' = in_attempt + 1
    /\ UNCHANGED <<in_variant, in_retries>>
    /\ UNCHANGED <<retryVars, seqVars, concVars, batchVars, lambdaVars, scrollVars>>

\* The for loop ran out of passes: the trailing return of the all-null payload.
InnerLoopExhausted ==
    /\ in_status = "running"
    /\ in_attempt >= in_retries
    /\ in_status' = "returned"
    /\ in_result' = IF in_variant = "new"
                    THEN _empty_event_payload(Null)
                    ELSE OldEmptyPayload
    /\ UNCHANGED <<in_variant, in_retries, in_attempt, in_reads>>
    /\ UNCHANGED <<retryVars, seqVars, concVars, batchVars, lambdaVars, scrollVars>>

InnerNext == InnerReadReturns \/ InnerReadRaises \/ InnerLoopExhausted

SpecInner == InnerInit /\ [][InnerNext]_vars

\* The extraction fields of the variant under check.
InnerFields == IF in_variant = "new" THEN ExtractionFields ELSE OldExtractionFields

\* Some page.evaluate of this call handed back a data object.
InnerGotData == \E j \in 1..Len(in_reads) : in_reads[j] = "object"

\* C10: scrape_inner_page never lets an error out; it runs the in-page read at
\* most retries times; and when no read returned data it returns a payload
\* that holds every extraction field, each null.
C10_InnerPageDegrades ==
    /\ in_status # "raised"
    /\ Len(in_reads) <= in_retries
    /\ (in_status = "returned" /\ ~InnerGotData) =>
          /\ InnerFields \subseteq DOMAIN in_result
          /\ \A f \in InnerFields : in_result[f] = Null

\* The read raised a transient error, was retried, and then raised an error
\* that is not retryable: the call returned all the same.
C10_Witness ==
    /\ in_variant = "new"
    /\ in_retries = 2
    /\ in_reads = <<"ContextDestroyed", "Other">>
    /\ in_status = "returned"
    /\ in_result = _empty_event_payload(Null)

\* ------------------------------------------------ scrape_page_sequential
\* The default retries of _retry_async.
DefaultRetries == 3

\* The exceptions a browser operation of the crawl raises.
CrawlErrors == {"TimeoutError", "ContextDestroyed", "Other"}

\* page.url once the detail view is shown.
DetailUrl == "detail_url"

\* Python's {**a, **b}: b's entries win.
DictMerge(a, b) == b @@ a

\* A faulty variant: the record of a failed card keeps the url of the page it was on.
FailedRecordKeepsUrl(p, idx) ==
    DictMerge([page_number |-> p, card_index |-> idx], _empty_event_payload(DetailUrl))

\* A faulty variant: the record of a failed card leaves out the fields it has no
\* value for.
FailedRecordOmitsFields(p, idx) ==
    [page_number |-> p, card_index |-> idx, detail_url |-> Null]

\* The dict appended by both except branches of the card loop.
FailedRecord(p, idx) ==
    DictMerge([page_number |-> p, card_index |-> idx], _empty_event_payload(Null))

\* A faulty variant: the url of the detail view is written over the payload.
SuccessRecordUrlWins(p, idx, url, data) ==
    DictMerge(DictMerge(DictMerge([page_number |-> p, card_index |-> idx],
                                  _empty_event_payload(url)),
                        data),
              [detail_url |-> url])

\* The dict appended after the extraction returned data.
SuccessRecord(p, idx, url, data) ==
    DictMerge(DictMerge([page_number |-> p, card_index |-> idx],
                        _empty_event_payload(url)),
              data)

\* The position the loop goes to for card index j.
CardLoop(j, n) == IF j < n THEN "activate" ELSE "close"

FreshCycle(h) ==
    [h EXCEPT !.cyc_faults = 0, !.cyc_hard = FALSE, !.cyc_read = "none",
              !.cyc_data = FALSE, !.retries_at_start = metrics.retry_attempts]

\* The fault exc hit the activate / wait / extract cycle of the current card.
CycleFault(h, exc) ==
    IF _is_retryable_error(exc)
    THEN [h EXCEPT !.cyc_faults = @ + 1]
    ELSE [h EXCEPT !.cyc_hard = TRUE]

\* What the read handed back, for the record of the run.
ReadKind(r) ==
    IF r.kind = "object" /\ \E f \in DOMAIN r.value : r.value[f] # Null
    THEN "content"
    ELSE "empty"

SeqInit ==
    /\ pc = "new_context"
    /\ page_number \in 1..MaxPage
    /\ context_open = FALSE
    /\ card_count = -1
    /\ i = 0
    /\ results = <<>>
    /\ metrics = [retry_attempts |-> 0, cards_failed |-> 0]
    /\ attempt = 0
    /\ inner_attempt = 0
    /\ raised = "none"
    /\ hist = [failed |-> {}, raised_at |-> "none", cyc_faults |-> 0,
               cyc_hard |-> FALSE, cyc_read |-> "none", retries_at_start |-> 0,
               cyc_data |-> FALSE]
    /\ RetryIdle
    /\ InnerIdle
    /\ strategy = "sequential"
    /\ ConcIdle
    /\ BatchIdle
    /\ LambdaIdle
    /\ ScrollIdle

\* An exception leaves scrape_page_sequential (no handler encloses the await).
Propagate(exc) ==
    /\ pc' = "raised"
    /\ raised' = exc
    /\ hist' = [hist EXCEPT !.raised_at = pc]
    /\ UNCHANGED <<page_number, context_open, card_count, i, results, metrics,
                   attempt, inner_attempt>>

\* A pass of _retry_async raised exc and the policy schedules a retry.
ScheduleRetry ==
    /\ attempt' = attempt + 1
    /\ metrics' = [metrics EXCEPT !.retry_attempts = @ + 1]
    /\ UNCHANGED <<pc, page_number, context_open, card_count, i, results,
                   inner_attempt, raised, hist>>

\* Either except branch of the card loop, up to its first await: append the
\* failed record, count the failure, start the recovery reload.
HandleCardFailure(exc, h) ==
    /\ results' = Append(results, FailedRecord(page_number, i))
    /\ metrics' = [metrics EXCEPT !.cards_failed = @ + 1]
    /\ pc' = IF IsPlaywrightTimeout(exc)
             THEN "recovery_goto_timeout"
             ELSE "recovery_goto_exception"
    /\ attempt' = 1
    /\ hist' = [h EXCEPT !.failed = @ \cup {[pos |-> Len(results) + 1, card |-> i]}]
    /\ UNCHANGED <<page_number, context_open, card_count, i, inner_attempt, raised>>

\* browser.new_context(), context.route(...), then the call of _retry_async
\* for context.new_page().
NewContext ==
    /\ pc = "new_context"
    /\ context_open' = TRUE
    /\ pc' = "new_page"
    /\ attempt' = 1
    /\ UNCHANGED <<page_number, card_count, i, results, metrics, inner_attempt,
                   raised, hist>>
    /\ UNCHANGED <<retryVars, innerVars, concVars, batchVars, lambdaVars, scrollVars>>

\* _retry_async(context.new_page, retries=3, base_delay=0.7)
NewPage ==
    /\ pc = "new_page"
    /\ \/ /\ pc' = "initial_goto"
          /\ attempt' = 1
          /\ UNCHANGED <<page_number, context_open, card_count, i, results,
                         metrics, inner_attempt, raised, hist>>
       \/ \E exc \in CrawlErrors :
            IF _retry_async(attempt, 3, 7, "_is_retryable_error", exc).act = "raise"
            THEN Propagate(exc)
            ELSE ScheduleRetry
    /\ UNCHANGED <<retryVars, innerVars, concVars, batchVars, lambdaVars, scrollVars>>

\* _retry_async(page.goto(url), retries=3, base_delay=0.8)
InitialGoto ==
    /\ pc = "initial_goto"
    /\ \/ /\ pc' = "initial_scroll"
          /\ UNCHANGED <<page_number, context_open, card_count, i, results,
                         metrics, attempt, inner_attempt, raised, hist>>
       \/ \E exc \in CrawlErrors :
            IF _retry_async(attempt, 3, 8, "_is_retryable_error", exc).act = "raise"
            THEN Propagate(exc)
            ELSE ScheduleRetry
    /\ UNCHANGED <<retryVars, innerVars, concVars, batchVars, lambdaVars, scrollVars>>

\* scroll_to_bottom(page) after the first load.
InitialScroll ==
    /\ pc = "initial_scroll"
    /\ \/ /\ pc' = "wait_listing"
          /\ UNCHANGED <<page_number, context_open, card_count, i, results,
                         metrics, attempt, inner_attempt, raised, hist>>
       \/ \E exc \in CrawlErrors : Propagate(exc)
    /\ UNCHANGED <<retryVars, innerVars, concVars, batchVars, lambdaVars, scrollVars>>

\* page.wait_for_selector(card selector, timeout=25_000)
WaitListing ==
    /\ pc = "wait_listing"
    /\ \/ /\ pc' = "count_cards"
          /\ UNCHANGED <<page_number, context_open, card_count, i, results,
                         metrics, attempt, inner_attempt, raised, hist>>
       \/ \E exc \in CrawlErrors : Propagate(exc)
    /\ UNCHANGED <<retryVars, innerVars, concVars, batchVars, lambdaVars, scrollVars>>

\* card_count = await page.locator(...).count(), then the loop starts.
CountCards ==
    /\ pc = "count_cards"
    /\ \/ \E n \in 0..MaxCards :
            /\ card_count' = n
            /\ i' = 0
            /\ pc' = CardLoop(0, n)
            /\ hist' = FreshCycle(hist)
            /\ UNCHANGED <<page_number, context_open, results, metrics, attempt,
                           inner_attempt, raised>>
       \/ \E exc \in CrawlErrors : Propagate(exc)
    /\ UNCHANGED <<retryVars, innerVars, concVars, batchVars, lambdaVars, scrollVars>>

\* card.scroll_into_view_if_needed() and card.click(timeout=15_000)
Activate ==
    /\ pc = "activate"
    /\ \/ /\ pc' = "wait_detail"
          /\ UNCHANGED <<page_number, context_open, card_count, i, results,
                         metrics, attempt, inner_attempt, raised, hist>>
       \/ \E exc \in CrawlErrors : HandleCardFailure(exc, CycleFault(hist, exc))
    /\ UNCHANGED <<retryVars, innerVars, concVars, batchVars, lambdaVars, scrollVars>>

\* page.wait_for_selector(detail container, timeout=30_000), then the call of
\* scrape_inner_page.
WaitDetail ==
    /\ pc = "wait_detail"
    /\ \/ /\ pc' = "extract"
          /\ inner_attempt' = 1
          /\ UNCHANGED <<page_number, context_open, card_count, i, results,
                         metrics, attempt, raised, hist>>
       \/ \E exc \in CrawlErrors : HandleCardFailure(exc, CycleFault(hist, exc))
    /\ UNCHANGED <<retryVars, innerVars, concVars, batchVars, lambdaVars, scrollVars>>

\* A faulty variant: once the record is appended the loop takes the next card
\* without returning to the listing.
AppendSuccessThenNextCard(data, h) ==
    /\ results' = Append(results, SuccessRecord(page_number, i, DetailUrl, data))
    /\ i' = i + 1
    /\ pc' = CardLoop(i + 1, card_count)
    /\ attempt' = 1
    /\ hist' = h
    /\ UNCHANGED <<page_number, context_open, card_count, metrics,
                   inner_attempt, raised>>

\* The record of the current card is appended and go_back is called.
AppendSuccess(data, h) ==
    /\ results' = Append(results, SuccessRecord(page_number, i, DetailUrl, data))
    /\ pc' = "go_back"
    /\ attempt' = 1
    /\ hist' = h
    /\ UNCHANGED <<page_number, context_open, card_count, i, metrics,
                   inner_attempt, raised>>

\* One pass of scrape_inner_page(page) (retries=2); when it returns, the
\* record is appended and _retry_async(page.go_back) is called.
Extract ==
    /\ pc = "extract"
    /\ \/ \E r \in EvalResults :
            AppendSuccess(InnerReturn(r), [hist EXCEPT !.cyc_read = ReadKind(r),
                                                       !.cyc_data = Truthy(r)])
       \/ \E exc \in CrawlErrors :
            LET act == scrape_inner_page_except(inner_attempt, 2, exc)
                h   == CycleFault(hist, exc)
            IN  CASE act = "retry" ->
                       /\ inner_attempt' = inner_attempt + 1
                       /\ hist' = h
                       /\ UNCHANGED <<pc, page_number, context_open, card_count,
                                      i, results, metrics, attempt, raised>>
                  [] act = "return_empty" ->
                       AppendSuccess(_empty_event_payload(Null),
                                     [h EXCEPT !.cyc_read = "empty"])
                  [] OTHER -> HandleCardFailure(exc, h)
    /\ UNCHANGED <<retryVars, innerVars, concVars, batchVars, lambdaVars, scrollVars>>

\* The loop moves on to card index i + 1, or ends.
AdvanceCard ==
    /\ i' = i + 1
    /\ pc' = CardLoop(i + 1, card_count)
    /\ hist' = FreshCycle(hist)
    /\ UNCHANGED <<page_number, context_open, card_count, results, metrics,
                   attempt, inner_attempt, raised>>

\* A faulty variant: after go_back the loop takes the next card without the
\* settle-scroll.
GoBackWithoutScroll ==
    /\ pc = "go_back"
    /\ \/ AdvanceCard
       \/ \E exc \in CrawlErrors :
            IF _retry_async(attempt, 3, 7, "_is_retryable_error", exc).act = "raise"
            THEN HandleCardFailure(exc, hist)
            ELSE ScheduleRetry
    /\ UNCHANGED <<retryVars, innerVars, concVars, batchVars, lambdaVars, scrollVars>>

\* _retry_async(page.go_back, retries=3, base_delay=0.7), inside the try.
GoBack ==
    /\ pc = "go_back"
    /\ \/ /\ pc' = "scroll_back"
          /\ UNCHANGED <<page_number, context_open, card_count, i, results,
                         metrics, attempt, inner_attempt, raised, hist>>
       \/ \E exc \in CrawlErrors :
            IF _retry_async(attempt, 3, 7, "_is_retryable_error", exc).act = "raise"
            THEN HandleCardFailure(exc, hist)
            ELSE ScheduleRetry
    /\ UNCHANGED <<retryVars, innerVars, concVars, batchVars, lambdaVars, scrollVars>>

\* scroll_to_bottom(page) after go_back, still inside the try.
ScrollBack ==
    /\ pc = "scroll_back"
    /\ \/ AdvanceCard
       \/ \E exc \in CrawlErrors : HandleCardFailure(exc, hist)
    /\ UNCHANGED <<retryVars, innerVars, concVars, batchVars, lambdaVars, scrollVars>>

\* _retry_async(page.goto(url), retries=2, base_delay=0.8) of an except
\* branch: no handler encloses it.
RecoveryGoto ==
    /\ pc \in {"recovery_goto_timeout", "recovery_goto_exception"}
    /\ \/ /\ pc' = "recovery_scroll"
          /\ UNCHANGED <<page_number, context_open, card_count, i, results,
                         metrics, attempt, inner_attempt, raised, hist>>
       \/ \E exc \in CrawlErrors :
            IF _retry_async(attempt, 2, 8, "_is_retryable_error", exc).act = "raise"
            THEN Propagate(exc)
            ELSE ScheduleRetry
    /\ UNCHANGED <<retryVars, innerVars, concVars, batchVars, lambdaVars, scrollVars>>

\* scroll_to_bottom(page) of an except branch.
RecoveryScroll ==
    /\ pc = "recovery_scroll"
    /\ \/ AdvanceCard
       \/ \E exc \in CrawlErrors : Propagate(exc)
    /\ UNCHANGED <<retryVars, innerVars, concVars, batchVars, lambdaVars, scrollVars>>

\* context.close(), the metrics, return results.
CloseContext ==
    /\ pc = "close"
    /\ context_open' = FALSE
    /\ pc' = "done"
    /\ UNCHANGED <<page_number, card_count, i, results, metrics, attempt,
                   inner_attempt, raised, hist>>
    /\ UNCHANGED <<retryVars, innerVars, concVars, batchVars, lambdaVars, scrollVars>>

SeqNext ==
    \/ NewContext \/ NewPage \/ InitialGoto \/ InitialScroll \/ WaitListing
    \/ CountCards \/ Activate \/ WaitDetail \/ Extract \/ GoBack \/ ScrollBack
    \/ RecoveryGoto \/ RecoveryScroll \/ CloseContext


\* ---------------------------------- scrape_page_cards / scrape_card_on_page
\* max_retries of scrape_page_cards and of scrape_card_on_page.
PageMaxRetries == 3
CardMaxRetries == 3
\* retries of c_scraper_utils.scrape_inner_page.
OldInnerRetries == 2

\* The dict returned when the last attempt of a card failed.
OldFailedRecord(p, idx) ==
    [ page_number |-> p, card_index |-> idx, detail_url |-> Null,
      description |-> Null, info |-> Null, schedule |-> Null, location |-> Null ]

\* The dict returned after scrape_inner_page returned detail_data.
OldSuccessRecord(p, idx, url, detail_data) ==
    DictMerge([page_number |-> p, card_index |-> idx, detail_url |-> url],
              detail_data)

\* asyncio.gather(*tasks): the results in the order of the awaitables.
Gather(n) == [k \in 1..n |-> card[k - 1].result[1]]

NewCardTask ==
    [pc |-> "acquire", attempt |-> 0, inner |-> 0, context_open |-> FALSE,
     result |-> <<>>, fails |-> 0, read |-> "none"]

ConcInit ==
    /\ strategy = "per_card_context"
    /\ page_number \in 1..MaxPage
    /\ sem_capacity \in 1..MaxSlots
    /\ card_sem = sem_capacity
    /\ p_pc = "new_context"
    /\ p_attempt = 0
    /\ p_context_open = FALSE
    /\ p_card_count = -1
    /\ card = <<>>
    /\ page_results = <<>>
    /\ saved = <<>>
    /\ pc = "idle"
    /\ context_open = FALSE
    /\ card_count = -1
    /\ i = 0
    /\ results = <<>>
    /\ metrics = [retry_attempts |-> 0, cards_failed |-> 0]
    /\ attempt = 0
    /\ inner_attempt = 0
    /\ raised = "none"
    /\ hist = [failed |-> {}, raised_at |-> "none", cyc_faults |-> 0,
               cyc_hard |-> FALSE, cyc_read |-> "none", retries_at_start |-> 0,
               cyc_data |-> FALSE]
    /\ RetryIdle
    /\ InnerIdle
    /\ BatchIdle
    /\ LambdaIdle
    /\ ScrollIdle

\* browser.new_context() and context.new_page() of scrape_page_cards.
PageNewContext ==
    /\ p_pc = "new_context"
    /\ p_context_open' = TRUE
    /\ p_pc' = "goto"
    /\ p_attempt' = 1
    /\ UNCHANGED <<strategy, p_card_count, card, card_sem, sem_capacity,
                   page_results, saved>>
    /\ UNCHANGED <<retryVars, innerVars, seqVars, batchVars, lambdaVars, scrollVars>>

\* One pass of the navigation loop: page.goto and scroll_to_bottom. The last
\* failed pass closes the context and returns [].
PageGoto ==
    /\ p_pc = "goto"
    /\ \/ /\ p_pc' = "count"
          /\ UNCHANGED <<p_attempt, p_context_open, page_results>>
       \/ \E exc \in CrawlErrors :
            IF p_attempt = PageMaxRetries
            THEN /\ p_context_open' = FALSE
                 /\ page_results' = <<>>
                 /\ p_pc' = "done"
                 /\ UNCHANGED p_attempt
            ELSE /\ p_attempt' = p_attempt + 1
                 /\ UNCHANGED <<p_pc, p_context_open, page_results>>
    /\ UNCHANGED <<strategy, p_card_count, card, card_sem, sem_capacity,
                   saved>>
    /\ UNCHANGED <<retryVars, innerVars, seqVars, batchVars, lambdaVars, scrollVars>>

\* card_count = await page.locator(...).count(); one task per card index is
\* handed to asyncio.gather.
PageCount ==
    /\ p_pc = "count"
    /\ \E n \in 0..MaxCards :
         /\ p_card_count' = n
         /\ card' = [t \in 0..(n - 1) |-> NewCardTask]
    /\ p_pc' = "gather"
    /\ UNCHANGED <<strategy, p_attempt, p_context_open, card_sem, sem_capacity,
                   page_results, saved>>
    /\ UNCHANGED <<retryVars, innerVars, seqVars, batchVars, lambdaVars, scrollVars>>

\* Every task returned: gather hands back the results, save_page_data writes
\* them, the page context is closed.
PageGather ==
    /\ p_pc = "gather"
    /\ \A t \in DOMAIN card : card[t].pc = "done"
    /\ page_results' = Gather(p_card_count)
    /\ saved' = <<Gather(p_card_count)>>
    /\ p_context_open' = FALSE
    /\ p_pc' = "done"
    /\ UNCHANGED <<strategy, p_attempt, p_card_count, card, card_sem,
                   sem_capacity>>
    /\ UNCHANGED <<retryVars, innerVars, seqVars, batchVars, lambdaVars, scrollVars>>

\* async with sem: the task takes a slot of card_sem.
CardAcquire(t) ==
    /\ card[t].pc = "acquire"
    /\ card_sem > 0
    /\ card_sem' = card_sem - 1
    /\ card' = [card EXCEPT ![t].pc = "new_context"]
    /\ UNCHANGED <<strategy, p_pc, p_attempt, p_context_open, p_card_count,
                   sem_capacity, page_results, saved>>
    /\ UNCHANGED <<retryVars, innerVars, seqVars, batchVars, lambdaVars, scrollVars>>

\* browser.new_context() and context.new_page() of the card task.
CardNewContext(t) ==
    /\ card[t].pc = "new_context"
    /\ card' = [card EXCEPT ![t].pc = "navigate", ![t].attempt = 1,
                            ![t].context_open = TRUE]
    /\ UNCHANGED <<strategy, p_pc, p_attempt, p_context_open, p_card_count,
                   card_sem, sem_capacity, page_results, saved>>
    /\ UNCHANGED <<retryVars, innerVars, seqVars, batchVars, lambdaVars, scrollVars>>

\* The task returns record rec: its context is closed and its slot released.
CardReturn(t, c, rec) ==
    /\ card' = [card EXCEPT ![t] = [c EXCEPT !.pc = "done",
                                             !.context_open = FALSE,
                                             !.result = <<rec>>]]
    /\ card_sem' = card_sem + 1

\* The except branch of the attempt loop: the last attempt returns the failed
\* record, an earlier one sleeps and starts the next attempt.
CardAttemptFailed(t) ==
    LET c == [card[t] EXCEPT !.fails = @ + 1] IN
    IF card[t].attempt = CardMaxRetries
    THEN CardReturn(t, c, OldFailedRecord(page_number, t))
    ELSE /\ card' = [card EXCEPT ![t] = [c EXCEPT !.pc = "navigate",
                                                  !.attempt = @ + 1]]
         /\ UNCHANGED card_sem

\* page.goto, scroll_to_bottom and the in-page click of one attempt.
CardNavigate(t) ==
    /\ card[t].pc = "navigate"
    /\ \/ /\ card' = [card EXCEPT ![t].pc = "wait_detail"]
          /\ UNCHANGED card_sem
       \/ CardAttemptFailed(t)
    /\ UNCHANGED <<strategy, p_pc, p_attempt, p_context_open, p_card_count,
                   sem_capacity, page_results, saved>>
    /\ UNCHANGED <<retryVars, innerVars, seqVars, batchVars, lambdaVars, scrollVars>>

\* page.wait_for_selector(detail container, timeout=15_000), then the call of
\* scrape_inner_page.
CardWaitDetail(t) ==
    /\ card[t].pc = "wait_detail"
    /\ \/ /\ card' = [card EXCEPT ![t].pc = "extract", ![t].inner = 0]
          /\ UNCHANGED card_sem
       \/ CardAttemptFailed(t)
    /\ UNCHANGED <<strategy, p_pc, p_attempt, p_context_open, p_card_count,
                   sem_capacity, page_results, saved>>
    /\ UNCHANGED <<retryVars, innerVars, seqVars, batchVars, lambdaVars, scrollVars>>

\* One pass of c_scraper_utils.scrape_inner_page; when it returns, the task
\* reads page.url, closes its context and returns its record.
CardExtract(t) ==
    /\ card[t].pc = "extract"
    /\ \/ \E r \in OldEvalResults :
            CardReturn(t, [card[t] EXCEPT !.read = ReadKind(r)],
                       OldSuccessRecord(page_number, t, DetailUrl, OldInnerReturn(r)))
       \/ \E exc \in CrawlErrors :
            IF /\ old_scrape_inner_page_except(card[t].inner, OldInnerRetries, exc) = "retry"
               /\ card[t].inner + 1 < OldInnerRetries
            THEN /\ card' = [card EXCEPT ![t].inner = @ + 1]
                 /\ UNCHANGED card_sem
            ELSE CardReturn(t, [card[t] EXCEPT !.read = "empty"],
                            OldSuccessRecord(page_number, t, DetailUrl, OldEmptyPayload))
    /\ UNCHANGED <<strategy, p_pc, p_attempt, p_context_open, p_card_count,
                   sem_capacity, page_results, saved>>
    /\ UNCHANGED <<retryVars, innerVars, seqVars, batchVars, lambdaVars, scrollVars>>

CardNext(t) ==
    \/ CardAcquire(t) \/ CardNewContext(t) \/ CardNavigate(t)
    \/ CardWaitDetail(t) \/ CardExtract(t)

ConcNext ==
    \/ PageNewContext \/ PageGoto \/ PageCount \/ PageGather
    \/ \E t \in DOMAIN card : CardNext(t)

\* ---------------------------------------------------------- the page crawl
Init == SeqInit \/ ConcInit

Next == SeqNext \/ ConcNext

Spec == Init /\ [][Next]_vars

\* ------------------------------------------------- properties of the crawl
AllFields == {"page_number", "card_index", "detail_url"} \cup ExtractionFields

OldAllFields == {"page_number", "card_index", "detail_url"} \cup OldExtractionFields

SeqReturned == strategy = "sequential" /\ pc = "done"

ConcReturned == strategy = "per_card_context" /\ p_pc = "done" /\ p_card_count >= 0

\* Positions of results filled by a FAILED transition.
FailedPositions == {f.pos : f \in hist.failed}

HasContent(rec, fields) == \E f \in fields : rec[f] # Null

\* C1: the list a page crawl returns has exactly card_count records, whatever
\* failed while the cards were processed.
C1_LengthIsCardCount ==
    /\ SeqReturned => Len(results) = card_count
    /\ ConcReturned => Len(page_results) = p_card_count

\* C2: in a page result the record at position k (from 0) has card_index k,
\* so every card_index occurs once.
C2_IndexIsPosition ==
    /\ SeqReturned =>
          \A k \in 1..Len(results) : results[k].card_index = k - 1
    /\ ConcReturned =>
          \A k \in 1..Len(page_results) : page_results[k].card_index = k - 1

\* C3: a record produced by a FAILED transition has detail_url and every
\* extraction field null, the page_number of the crawl and the card_index of
\* the card that failed.
C3_FailedRecordShape ==
    /\ \A f \in hist.failed :
          LET rec == results[f.pos] IN
          /\ rec.detail_url = Null
          /\ \A x \in ExtractionFields : rec[x] = Null
          /\ rec.page_number = page_number
          /\ rec.card_index = f.card
    /\ \A t \in DOMAIN card :
          (card[t].pc = "done" /\ card[t].fails = CardMaxRetries) =>
              LET rec == card[t].result[1] IN
              /\ rec.detail_url = Null
              /\ \A x \in OldExtractionFields : rec[x] = Null
              /\ rec.page_number = page_number
              /\ rec.card_index = t

\* The second card of a sequential crawl failed and the crawl returned.
C3_Witness ==
    /\ SeqReturned
    /\ card_count = 2
    /\ \E f \in hist.failed : f.card = 1 /\ f.pos = Len(results)

\* C4: every record of a page result holds the same fields (page_number,
\* card_index, detail_url and each extraction field), whether it comes from a
\* success, a degraded extraction or a failure.
C4_SameFields ==
    /\ \A k \in 1..Len(results) : DOMAIN results[k] = AllFields
    /\ \A t \in DOMAIN card :
          card[t].pc = "done" => DOMAIN card[t].result[1] = OldAllFields
    /\ \A k \in 1..Len(page_results) : DOMAIN page_results[k] = OldAllFields

\* A returned sequential result holding a record with content, a degraded
\* record and a failed record.
C4_Witness ==
    /\ SeqReturned
    /\ \E k \in 1..Len(results) : HasContent(results[k], ExtractionFields)
    /\ \E k \in 1..Len(results) :
          /\ k \notin FailedPositions
          /\ ~HasContent(results[k], ExtractionFields)
    /\ FailedPositions # {}

\* C8: once the card loop has started no exception leaves the crawl: every
\* card index is visited and the crawl returns.
C8_CardFailuresContained ==
    (strategy = "sequential" /\ pc = "raised") => card_count = -1

\* The activate / wait / extract cycle of the current card has just ended:
\* its record was appended and the next await is not yet resumed.
SeqCycleEnded ==
    /\ strategy = "sequential"
    /\ attempt = 1
    /\ \/ pc = "go_back"
       \/ /\ pc \in {"recovery_goto_timeout", "recovery_goto_exception"}
          /\ hist.cyc_read = "none"

\* C9: a card whose cycle met k < max_attempts transient faults and nothing
\* else ends with a record that has content at its card_index, and the retry
\* telemetry counts k retries for it.
C9_TransientCycleRetried ==
    /\ (/\ SeqCycleEnded
        /\ ~hist.cyc_hard
        /\ hist.cyc_faults < DefaultRetries
        /\ hist.cyc_read # "empty") =>
          /\ hist.cyc_read = "content"
          /\ results[Len(results)].card_index = i
          /\ HasContent(results[Len(results)], ExtractionFields)
          /\ metrics.retry_attempts - hist.retries_at_start = hist.cyc_faults
    /\ \A t \in DOMAIN card :
          (/\ card[t].pc = "done"
           /\ card[t].fails < CardMaxRetries
           /\ card[t].read # "empty") =>
              /\ card[t].read = "content"
              /\ card[t].result[1].card_index = t
              /\ HasContent(card[t].result[1], OldExtractionFields)

\* ------------------------------------------------------- scrape_all_cards
\* Largest last_page detect_last_page returns in SpecBatch.
MaxBatchPages == 2
\* Largest number of cards the pages of one batch show in total.
MaxBatchCards == 2

\* The variables of the other subsystems, which the batch leaves alone.
nonBatchVars == <<retryVars, innerVars, seqVars, concVars, lambdaVars, scrollVars>>

NewBatchPage ==
    [pc |-> "acquire", context_open |-> FALSE, card_count |-> -1,
     result |-> "none"]

NewBatchCard ==
    [pc |-> "acquire", context_open |-> FALSE, result |-> "none"]

\* A task that returned, raised or was cancelled.
Ended(task) == task.pc \in {"done", "raised", "cancelled"}

\* The task is inside the body of its async with (it holds a slot).
InSection(task) == ~Ended(task) /\ task.pc # "acquire"

CardsOf(p) == {k \in DOMAIN b_card : k[1] = p}

\* A faulty variant: acquire never waits.
SemaphoreAlwaysFree(value) == TRUE

\* A faulty variant: the slot is not given back when an exception leaves the unit.
SemaphoreKeptOnError(value) == value

\* async with sem, on entry: asyncio.Semaphore.acquire returns only while the
\* value is positive (the task is suspended otherwise).
SemaphoreFree(value) == value > 0

\* A faulty variant: a slot that was taken is never given back.
SemaphoreReleaseLost(value) == value

\* async with sem, on a normal exit: release adds one to the value.
SemaphoreRelease(value) == value + 1

\* __aexit__ of the semaphore when an exception (CancelledError included)
\* leaves the body.
SemaphoreExitOnError(value) == SemaphoreRelease(value)

\* __aexit__ of async_playwright(): the driver is stopped and takes down a
\* browser that is still running.
PlaywrightExit(browser) == IF browser = "running" THEN "closed" ELSE browser

BatchInit ==
    /\ b_pc = "launch"
    /\ b_browser = "none"
    /\ b_launches = 0
    /\ b_raised = FALSE
    /\ b_last_page = 0
    /\ b_page_cap \in 1..MaxSlots
    /\ b_card_cap \in 1..MaxSlots
    /\ b_page_sem = 0
    /\ b_card_sem = 0
    /\ b_page = <<>>
    /\ b_card = <<>>
    /\ b_saved = <<>>
    /\ RetryIdle
    /\ InnerIdle
    /\ SeqIdle
    /\ strategy = "none"
    /\ ConcIdle
    /\ LambdaIdle
    /\ ScrollIdle

RECURSIVE ReleaseAll(_, _)
\* n units leave their async with one after the other.
ReleaseAll(value, n) ==
    IF n = 0 THEN value ELSE ReleaseAll(SemaphoreExitOnError(value), n - 1)

\* What CancelledError does to a task: it leaves the task where it was
\* suspended, closing nothing.
Cancelled(task) == IF Ended(task) THEN task ELSE [task EXCEPT !.pc = "cancelled"]

\* asyncio.run ends: every task still pending is cancelled, and those inside
\* an async with give their slot back on the way out.
LoopShutdown ==
    /\ b_page' = [p \in DOMAIN b_page |-> Cancelled(b_page[p])]
    /\ b_card' = [k \in DOMAIN b_card |-> Cancelled(b_card[k])]
    /\ b_page_sem' = ReleaseAll(b_page_sem,
            Cardinality({p \in DOMAIN b_page : InSection(b_page[p])}))
    /\ b_card_sem' = ReleaseAll(b_card_sem,
            Cardinality({k \in DOMAIN b_card : InSection(b_card[k])}))

\* An exception leaves scrape_all_cards: through async with
\* async_playwright(), then out of asyncio.run.
BatchRaise ==
    /\ b_raised' = TRUE
    /\ b_browser' = PlaywrightExit(b_browser)
    /\ b_pc' = "done"
    /\ LoopShutdown

\* browser = await p.chromium.launch(headless=True)
BatchLaunch ==
    /\ b_pc = "launch"
    /\ \/ /\ b_browser' = "running"
          /\ b_launches' = b_launches + 1
          /\ b_pc' = "detect"
          /\ UNCHANGED b_raised
          /\ UNCHANGED <<b_page_sem, b_card_sem, b_page, b_card>>
       \/ /\ BatchRaise
          /\ UNCHANGED b_launches
    /\ UNCHANGED <<b_last_page, b_page_cap, b_card_cap, b_saved>>
    /\ UNCHANGED nonBatchVars

\* last_page = await detect_last_page(browser); the two semaphores and one
\* scrape_page_cards task per page number are created.
BatchDetect ==
    /\ b_pc = "detect"
    /\ \/ \E n \in 0..MaxBatchPages :
            /\ b_last_page' = n
            /\ b_page_sem' = b_page_cap
            /\ b_card_sem' = b_card_cap
            /\ b_page' = [p \in 1..n |-> NewBatchPage]
            /\ b_pc' = "gather"
            /\ UNCHANGED <<b_raised, b_browser, b_card>>
       \/ /\ BatchRaise
          /\ UNCHANGED b_last_page
    /\ UNCHANGED <<b_launches, b_page_cap, b_card_cap, b_saved>>
    /\ UNCHANGED nonBatchVars

\* async with page_sem: the page task takes a slot.
BatchPageAcquire(p) ==
    /\ b_page[p].pc = "acquire"
    /\ SemaphoreFree(b_page_sem)
    /\ b_page_sem' = b_page_sem - 1
    /\ b_page' = [b_page EXCEPT ![p].pc = "open"]
    /\ UNCHANGED <<b_pc, b_browser, b_launches, b_raised, b_last_page,
                   b_page_cap, b_card_cap, b_card_sem, b_card, b_saved>>
    /\ UNCHANGED nonBatchVars

\* An exception leaves scrape_page_cards through async with page_sem: nothing
\* closes the context.
BatchPageLeaves(p, task) ==
    /\ b_page' = [b_page EXCEPT ![p] = [task EXCEPT !.pc = "raised"]]
    /\ b_page_sem' = SemaphoreExitOnError(b_page_sem)

\* scrape_page_cards returns: the context was closed, the slot is released.
BatchPageReturns(p, task, res) ==
    /\ b_page' = [b_page EXCEPT ![p] = [task EXCEPT !.pc = "done",
                                                   !.context_open = FALSE,
                                                   !.result = res]]
    /\ b_page_sem' = SemaphoreRelease(b_page_sem)

\* browser.new_context() and context.new_page() of the page task; either may
\* raise.
BatchPageOpen(p) ==
    /\ b_page[p].pc = "open"
    /\ \/ /\ b_page' = [b_page EXCEPT ![p].pc = "goto",
                                      ![p].context_open = TRUE]
          /\ UNCHANGED b_page_sem
       \/ BatchPageLeaves(p, b_page[p])
       \/ BatchPageLeaves(p, [b_page[p] EXCEPT !.context_open = TRUE])
    /\ UNCHANGED <<b_pc, b_browser, b_launches, b_raised, b_last_page,
                   b_page_cap, b_card_cap, b_card_sem, b_card, b_saved>>
    /\ UNCHANGED nonBatchVars

\* A faulty variant: the exception of the last failed pass leaves the page
\* task.
BatchPageGotoRaises(p) ==
    /\ b_page[p].pc = "goto"
    /\ \/ /\ b_page' = [b_page EXCEPT ![p].pc = "count"]
          /\ UNCHANGED b_page_sem
       \/ BatchPageLeaves(p, [b_page[p] EXCEPT !.result = "empty"])
    /\ UNCHANGED <<b_pc, b_browser, b_launches, b_raised, b_last_page,
                   b_page_cap, b_card_cap, b_card_sem, b_card, b_saved>>
    /\ UNCHANGED nonBatchVars

\* The navigation loop: some pass loads the listing, or the last of
\* max_retries failed passes closes the context and returns [].
BatchPageGoto(p) ==
    /\ b_page[p].pc = "goto"
    /\ \/ /\ b_page' = [b_page EXCEPT ![p].pc = "count"]
          /\ UNCHANGED b_page_sem
       \/ BatchPageReturns(p, b_page[p], "empty")
    /\ UNCHANGED <<b_pc, b_browser, b_launches, b_raised, b_last_page,
                   b_page_cap, b_card_cap, b_card_sem, b_card, b_saved>>
    /\ UNCHANGED nonBatchVars

\* card_count = await page.locator(...).count(); one scrape_card_on_page task
\* per card index is handed to asyncio.gather.
BatchPageCount(p) ==
    /\ b_page[p].pc = "count"
    /\ \/ \E n \in 0..(MaxBatchCards - Cardinality(DOMAIN b_card)) :
            /\ b_page' = [b_page EXCEPT ![p].pc = "gather", ![p].card_count = n]
            /\ b_card' = [k \in {<<p, c>> : c \in 0..(n - 1)} |-> NewBatchCard]
                            @@ b_card
            /\ UNCHANGED b_page_sem
       \/ /\ BatchPageLeaves(p, b_page[p])
          /\ UNCHANGED b_card
    /\ UNCHANGED <<b_pc, b_browser, b_launches, b_raised, b_last_page,
                   b_page_cap, b_card_cap, b_card_sem, b_saved>>
    /\ UNCHANGED nonBatchVars

\* asyncio.gather of the card tasks ends: with the first exception of a card
\* task, or with every result, which save_page_data then writes (it may raise)
\* before the context is closed.
BatchPageGather(p) ==
    /\ b_page[p].pc = "gather"
    /\ \/ /\ \E k \in CardsOf(p) : b_card[k].pc = "raised"
          /\ BatchPageLeaves(p, b_page[p])
          /\ UNCHANGED b_saved
       \/ /\ \A k \in CardsOf(p) : b_card[k].pc = "done"
          /\ \/ /\ BatchPageReturns(p, b_page[p], "list")
                /\ b_saved' = [q \in {p} |-> b_page[p].card_count] @@ b_saved
             \/ /\ BatchPageLeaves(p, b_page[p])
                /\ UNCHANGED b_saved
    /\ UNCHANGED <<b_pc, b_browser, b_launches, b_raised, b_last_page,
                   b_page_cap, b_card_cap, b_card_sem, b_card>>
    /\ UNCHANGED nonBatchVars

\* async with sem: the card task takes a slot of card_sem.
BatchCardAcquire(k) ==
    /\ b_card[k].pc = "acquire"
    /\ SemaphoreFree(b_card_sem)
    /\ b_card_sem' = b_card_sem - 1
    /\ b_card' = [b_card EXCEPT ![k].pc = "open"]
    /\ UNCHANGED <<b_pc, b_browser, b_launches, b_raised, b_last_page,
                   b_page_cap, b_card_cap, b_page_sem, b_page, b_saved>>
    /\ UNCHANGED nonBatchVars

\* An exception leaves scrape_card_on_page through async with sem.
BatchCardLeaves(k, task) ==
    /\ b_card' = [b_card EXCEPT ![k] = [task EXCEPT !.pc = "raised"]]
    /\ b_card_sem' = SemaphoreExitOnError(b_card_sem)

\* scrape_card_on_page returns a record after context.close().
BatchCardReturns(k, res) ==
    /\ b_card' = [b_card EXCEPT ![k].pc = "done", ![k].context_open = FALSE,
                                ![k].result = res]
    /\ b_card_sem' = SemaphoreRelease(b_card_sem)

\* browser.new_context() and context.new_page() of the card task, outside the
\* try; either may raise.
BatchCardOpen(k) ==
    /\ b_card[k].pc = "open"
    /\ \/ /\ b_card' = [b_card EXCEPT ![k].pc = "attempts",
                                      ![k].context_open = TRUE]
          /\ UNCHANGED b_card_sem
       \/ BatchCardLeaves(k, b_card[k])
       \/ BatchCardLeaves(k, [b_card[k] EXCEPT !.context_open = TRUE])
    /\ UNCHANGED <<b_pc, b_browser, b_launches, b_raised, b_last_page,
                   b_page_cap, b_card_cap, b_page_sem, b_page, b_saved>>
    /\ UNCHANGED nonBatchVars

\* The attempt loop: some pass returns the record after context.close(), or
\* the last of max_retries failed passes returns the failed record after
\* context.close().
BatchCardAttempts(k) ==
    /\ b_card[k].pc = "attempts"
    /\ \E res \in {"ok", "failed"} : BatchCardReturns(k, res)
    /\ UNCHANGED <<b_pc, b_browser, b_launches, b_raised, b_last_page,
                   b_page_cap, b_card_cap, b_page_sem, b_page, b_saved>>
    /\ UNCHANGED nonBatchVars

\* await asyncio.gather(*tasks) of scrape_all_cards ends: with the first
\* exception of a page task, or when every page task returned.
BatchGather ==
    /\ b_pc = "gather"
    /\ \/ /\ \E p \in DOMAIN b_page : b_page[p].pc = "raised"
          /\ BatchRaise
       \/ /\ \A p \in DOMAIN b_page : b_page[p].pc = "done"
          /\ b_pc' = "close"
          /\ UNCHANGED <<b_raised, b_browser, b_page_sem, b_card_sem, b_page,
                         b_card>>
    /\ UNCHANGED <<b_launches, b_last_page, b_page_cap, b_card_cap, b_saved>>
    /\ UNCHANGED nonBatchVars

\* await browser.close()
BatchClose ==
    /\ b_pc = "close"
    /\ b_browser' = "closed"
    /\ b_pc' = "exit"
    /\ UNCHANGED <<b_launches, b_raised, b_last_page, b_page_cap, b_card_cap,
                   b_page_sem, b_card_sem, b_page, b_card, b_saved>>
    /\ UNCHANGED nonBatchVars

\* The end of async with async_playwright(), then of asyncio.run.
BatchExit ==
    /\ b_pc = "exit"
    /\ b_browser' = PlaywrightExit(b_browser)
    /\ b_pc' = "done"
    /\ LoopShutdown
    /\ UNCHANGED <<b_launches, b_raised, b_last_page, b_page_cap, b_card_cap,
                   b_saved>>
    /\ UNCHANGED nonBatchVars

BatchNext ==
    \/ BatchLaunch \/ BatchDetect \/ BatchGather \/ BatchClose \/ BatchExit
    \/ \E p \in DOMAIN b_page :
          \/ BatchPageAcquire(p) \/ BatchPageOpen(p) \/ BatchPageGoto(p)
          \/ BatchPageCount(p) \/ BatchPageGather(p)
    \/ \E k \in DOMAIN b_card :
          \/ BatchCardAcquire(k) \/ BatchCardOpen(k) \/ BatchCardAttempts(k)

SpecBatch == BatchInit /\ [][BatchNext]_vars

\* The batch with the scarcest card_sem, a single slot, which every card task
\* of every page has to wait for.
BatchLiveInit == BatchInit /\ b_card_cap = 1

\* The event loop runs a task that is ready: a step that can be taken is
\* taken in the end.
SpecBatchLive == BatchLiveInit /\ [][BatchNext]_vars /\ WF_vars(BatchNext)

\* ------------------------------------------------- properties of the batch
CardsInside == {k \in DOMAIN b_card : InSection(b_card[k])}

PagesInside == {p \in DOMAIN b_page : InSection(b_page[p])}

\* C11: with card_sem created with capacity N, at no point are more than N
\* scrape_card_on_page tasks inside the guarded section, whatever the number
\* of pages and cards.
C11_AtMostNInside ==
    /\ Cardinality(CardsInside) <= b_card_cap
    /\ \A k \in CardsInside : b_card[k].pc = "attempts" => b_card[k].context_open

\* Cards of two pages compete: the section is full and a card of another page
\* waits for a slot.
C11_Witness ==
    /\ Cardinality(CardsInside) = b_card_cap
    /\ b_card_sem = 0
    /\ \E k \in CardsInside : \E w \in DOMAIN b_card :
          /\ w[1] # k[1]
          /\ b_card[w].pc = "acquire"

\* Every task created by the batch returned, raised or was cancelled.
AllUnitsEnded ==
    /\ DOMAIN b_page # {}
    /\ \A p \in DOMAIN b_page : Ended(b_page[p])
    /\ \A k \in DOMAIN b_card : Ended(b_card[k])

\* C12: a unit that took a slot gives it back however it ends (record
\* returned, failed record returned, exception, cancellation): once every unit
\* has ended the free slots of each semaphore equal its capacity.
C12_SlotsReleased ==
    AllUnitsEnded =>
        /\ b_card_sem = b_card_cap
        /\ b_page_sem = b_page_cap

\* Every unit has ended; one card task raised, another returned the failed
\* record.
C12_Witness ==
    /\ AllUnitsEnded
    /\ \E k \in DOMAIN b_card : b_card[k].pc = "raised"
    /\ \E k \in DOMAIN b_card :
          b_card[k].pc = "done" /\ b_card[k].result = "failed"

\* ---------------------------------------------------------- Python values
\* A str is the sequence of its pieces (a digit string: one piece per digit).
\* A value is an int, a str, None, or missing (a key a dict does not hold).
PyIntV(n) == [t |-> "int", n |-> n, s |-> <<>>]
PyStrV(s) == [t |-> "str", n |-> 0, s |-> s]
PyNone == [t |-> "none", n |-> 0, s |-> <<>>]
PyMissing == [t |-> "missing", n |-> 0, s |-> <<>>]

DigitChars == <<"0", "1", "2", "3", "4", "5", "6", "7", "8", "9">>

RECURSIVE PyStr(_)
\* str(n), and {n} in an f-string, for an int n >= 0.
PyStr(n) ==
    IF n < 10 THEN <<DigitChars[n + 1]>>
    ELSE PyStr(n \div 10) \o <<DigitChars[(n % 10) + 1]>>

\* str.isdigit()
IsDigit(s) ==
    /\ Len(s) > 0
    /\ \A j \in 1..Len(s) : \E d \in 1..10 : DigitChars[d] = s[j]

RECURSIVE PyInt(_)
\* int(s) for a str of digits.
PyInt(s) ==
    IF s = <<>> THEN 0
    ELSE 10 * PyInt(SubSeq(s, 1, Len(s) - 1))
         + ((CHOOSE d \in 1..10 : DigitChars[d] = s[Len(s)]) - 1)

\* bool(v) of a str or None: what "x if v else y" and "not v" test.
PyTruthy(v) == v.t = "str" /\ v.s # <<>>

\* list(range(1, n + 1))
PyRange1(n) == [j \in 1..n |-> j]

\* ------------------------------------------------ cultura_check_page.handler
\* What jp-data of the last-page control can hold: no such attribute, "",
\* "0", a page count of one or two digits, or text that is not a number.
AttrValues ==
    {PyNone, PyStrV(<<>>), PyStrV(<<"x">>), PyStrV(PyStr(MaxPage + 10))}
        \cup {PyStrV(PyStr(n)) : n \in 0..MaxPage}

\* The listing the browser loads: whether it has the paginator
\* (#cdmx-billboard-event-paginator), whether the paginator has the last-page
\* control (li.page.btn[jp-role='last']) and the control's jp-data.
Listings ==
    {l \in [paginator : BOOLEAN, last : BOOLEAN, attr : AttrValues] :
        /\ l.last => l.paginator
        /\ ~l.last => l.attr = PyNone}

\* A faulty variant: a count the page does not state is taken to be 0.
LastPageDefaultsToZero(listing) ==
    LET last_page_attr == IF listing.last THEN listing.attr ELSE PyNone IN
    IF PyTruthy(last_page_attr)
    THEN IF IsDigit(last_page_attr.s)
         THEN [ok |-> TRUE, n |-> PyInt(last_page_attr.s)]
         ELSE [ok |-> FALSE, n |-> 0]
    ELSE [ok |-> TRUE, n |-> 0]

\* last_page_attr = paginator_last.get_attribute("jp-data") if paginator_last
\* else None; last_page = int(last_page_attr) if last_page_attr else 1.
\* ok is FALSE when int raises ValueError.
LastPage(listing) ==
    LET last_page_attr == IF listing.last THEN listing.attr ELSE PyNone IN
    IF PyTruthy(last_page_attr)
    THEN IF IsDigit(last_page_attr.s)
         THEN [ok |-> TRUE, n |-> PyInt(last_page_attr.s)]
         ELSE [ok |-> FALSE, n |-> 0]
    ELSE [ok |-> TRUE, n |-> 1]

\* A faulty variant: the end of the with block leaves a running browser alone.
PlaywrightExitLeavesBrowser(browser) == browser

\* __exit__ of sync_playwright(): as PlaywrightExit.
SyncPlaywrightExit(browser) == IF browser = "running" THEN "closed" ELSE browser

nonLambdaVars == <<retryVars, innerVars, seqVars, concVars, batchVars, scrollVars>>

OthersIdle ==
    /\ ScrollIdle
    /\ RetryIdle
    /\ InnerIdle
    /\ SeqIdle
    /\ strategy = "none"
    /\ ConcIdle
    /\ BatchIdle

CheckInit ==
    /\ h_kind = "check"
    /\ h_env = <<>>
    /\ h_store = <<>>
    /\ h_puts = <<>>
    /\ \E l \in Listings :
          h_check = [pc |-> "launch", listing |-> l, attempt |-> 0,
                     browser |-> "none", launches |-> 0, fault |-> "none",
                     raised_at |-> "none", last_page |-> -1,
                     page_numbers |-> <<>>, statusCode |-> 0]
    /\ h_crawl = <<>>
    /\ h_merge = <<>>
    /\ OthersIdle

\* An exception leaves the with block at step: fault names a failure of the
\* browser or the network, "none" one the listing alone explains.
CheckRaise(step, fault, task) ==
    h_check' = [task EXCEPT !.pc = "exit", !.raised_at = step, !.fault = fault]

\* p.chromium.launch, browser.new_context, context.route, context.new_page
CheckLaunch ==
    /\ h_kind = "check" /\ h_check.pc = "launch"
    /\ LET up == [h_check EXCEPT !.browser = "running", !.launches = @ + 1] IN
       \/ h_check' = [up EXCEPT !.pc = "goto", !.attempt = 1]
       \/ CheckRaise("launch", "browser", h_check)
       \/ CheckRaise("new_page", "browser", up)
    /\ UNCHANGED <<h_kind, h_env, h_store, h_puts, h_crawl, h_merge>>
    /\ UNCHANGED nonLambdaVars

\* _retry_sync(page.goto, retries=3, base_delay=0.8): one pass.
CheckGoto ==
    /\ h_kind = "check" /\ h_check.pc = "goto"
    /\ \/ h_check' = [h_check EXCEPT !.pc = "wait_paginator"]
       \/ \E exc \in Errors :
            IF _retry_sync(h_check.attempt, 3, 8, "_is_retryable_error", exc).act = "raise"
            THEN CheckRaise("goto", "network", h_check)
            ELSE h_check' = [h_check EXCEPT !.attempt = @ + 1]
    /\ UNCHANGED <<h_kind, h_env, h_store, h_puts, h_crawl, h_merge>>
    /\ UNCHANGED nonLambdaVars

\* scroll_to_bottom(page), then page.wait_for_selector(paginator,
\* timeout=25_000): it times out when the listing has no paginator.
CheckWaitPaginator ==
    /\ h_kind = "check" /\ h_check.pc = "wait_paginator"
    /\ \/ CheckRaise("scroll", "browser", h_check)
       \/ IF h_check.listing.paginator
          THEN \/ h_check' = [h_check EXCEPT !.pc = "read"]
               \/ CheckRaise("wait_paginator", "network", h_check)
          ELSE CheckRaise("wait_paginator", "none", h_check)
    /\ UNCHANGED <<h_kind, h_env, h_store, h_puts, h_crawl, h_merge>>
    /\ UNCHANGED nonLambdaVars

\* The last-page control is read, then browser.close().
CheckRead ==
    /\ h_kind = "check" /\ h_check.pc = "read"
    /\ LET r == LastPage(h_check.listing) IN
       IF r.ok
       THEN h_check' = [h_check EXCEPT !.last_page = r.n, !.browser = "closed",
                                       !.pc = "exit"]
       ELSE CheckRaise("int", "none", h_check)
    /\ UNCHANGED <<h_kind, h_env, h_store, h_puts, h_crawl, h_merge>>
    /\ UNCHANGED nonLambdaVars

\* The with block ends; without an exception in flight page_numbers is built
\* and the response returned.
CheckExit ==
    /\ h_kind = "check" /\ h_check.pc = "exit"
    /\ LET down == [h_check EXCEPT !.browser = SyncPlaywrightExit(@)] IN
       IF h_check.raised_at # "none"
       THEN h_check' = [down EXCEPT !.pc = "raised"]
       ELSE h_check' = [down EXCEPT !.pc = "returned",
                                    !.page_numbers = PyRange1(h_check.last_page),
                                    !.statusCode = 200]
    /\ UNCHANGED <<h_kind, h_env, h_store, h_puts, h_crawl, h_merge>>
    /\ UNCHANGED nonLambdaVars

CheckNext == CheckLaunch \/ CheckGoto \/ CheckWaitPaginator \/ CheckRead \/ CheckExit


\* -------------------------------------------- playwright_card_scrape.handler
\* The two invocations of the crawl handler that run side by side.
Invocations == {1, 2}

\* datetime.utcnow().strftime("%Y-%m-%d") on the day of the run.
UtcToday == <<"2025", "-", "11", "-", "03">>

\* A snapshot_date as generate_snapshot_date hands it on ("%Y%m%d").
GivenDate == <<"2025", "11", "03">>

\* The events the handler is invoked with: an int, a str, a dict (with or
\* without page_number and snapshot_date) or anything else.
CrawlEvents ==
    {[kind |-> "int", self |-> PyIntV(n), page_number |-> PyMissing,
      snapshot_date |-> PyMissing] : n \in 1..MaxPage}
    \cup {[kind |-> "str", self |-> PyStrV(t), page_number |-> PyMissing,
           snapshot_date |-> PyMissing] : t \in {PyStr(MaxPage), <<"0", "2">>, <<"x">>}}
    \cup {[kind |-> "dict", self |-> PyNone, page_number |-> pn,
           snapshot_date |-> d] :
             pn \in {PyMissing, PyNone, PyIntV(MaxPage), PyStrV(PyStr(1)),
                     PyStrV(<<"x">>)},
             d \in {PyMissing, PyStrV(GivenDate)}}
    \cup {[kind |-> "other", self |-> PyNone, page_number |-> PyMissing,
           snapshot_date |-> PyMissing]}

\* int(v) of the handler: ok is FALSE when it raises (ValueError, TypeError).
IntOf(v) ==
    CASE v.t = "int" -> [ok |-> TRUE, n |-> v.n]
      [] v.t = "str" /\ IsDigit(v.s) -> [ok |-> TRUE, n |-> PyInt(v.s)]
      [] OTHER -> [ok |-> FALSE, n |-> 0]

\* A faulty variant: an event that is a numeric string is not parsed.
ResolveIgnoresStrings(event) ==
    CASE event.kind = "int" -> [ok |-> TRUE, n |-> event.self.n]
      [] event.kind = "dict" ->
            IF event.page_number.t = "missing" THEN [ok |-> TRUE, n |-> 1]
            ELSE IntOf(event.page_number)
      [] OTHER -> [ok |-> TRUE, n |-> 1]

\* The page_number the handler works with (lines 343-350).
ResolvePageNumber(event) ==
    CASE event.kind = "int" -> [ok |-> TRUE, n |-> event.self.n]
      [] event.kind = "str" /\ IsDigit(event.self.s) ->
            [ok |-> TRUE, n |-> PyInt(event.self.s)]
      [] event.kind = "dict" ->
            IF event.page_number.t = "missing" THEN [ok |-> TRUE, n |-> 1]
            ELSE IntOf(event.page_number)
      [] OTHER -> [ok |-> TRUE, n |-> 1]

\* {v} in an f-string.
FormatValue(v) ==
    CASE v.t = "str" -> v.s
      [] v.t = "int" -> PyStr(v.n)
      [] OTHER -> <<"None">>

\* snapshot_date = event.get("snapshot_date") if isinstance(event, dict) else
\* datetime.utcnow().strftime("%Y-%m-%d")
SnapshotDate(event) ==
    IF event.kind = "dict"
    THEN IF event.snapshot_date.t = "missing" THEN PyNone ELSE event.snapshot_date
    ELSE PyStrV(UtcToday)

\* A faulty variant: the key does not tell the pages of a date apart.
ShardKeyIgnoresPage(date, page) ==
    <<"snapshot_date/">> \o FormatValue(date) \o <<"/events_page_">>
        \o <<".json">>

\* s3_key = f"snapshot_date/{snapshot_date}/events_page_{page_number}.json"
ShardKey(date, page) ==
    <<"snapshot_date/">> \o FormatValue(date) \o <<"/events_page_">>
        \o PyStr(page) \o <<".json">>

\* json.dumps(results): the body of a shard.
JsonBody(rows) == [format |-> "json", rows |-> rows]

\* A faulty variant: the new body is appended to the one the key holds.
PutObjectAppends(store, key, body) ==
    [k \in DOMAIN store \cup {key} |->
        IF k # key THEN store[k]
        ELSE IF key \in DOMAIN store
             THEN [format |-> body.format, rows |-> store[key].rows \o body.rows]
             ELSE body]

\* s3.put_object(Bucket, Key, Body): the key holds the new body, whole.
PutObject(store, key, body) ==
    [k \in DOMAIN store \cup {key} |-> IF k = key THEN body ELSE store[k]]

\* What scrape_page_sequential can return for page p.
CrawlResults(p) ==
    { <<>>,
      <<FailedRecord(p, 0)>>,
      <<SuccessRecord(p, 0, DetailUrl, _empty_event_payload(Null)),
        FailedRecord(p, 1)>> }

\* An object the bucket holds before the invocations start.
OtherKey == <<"database/", "scraped_data_", "2025", "11", "02", ".parquet">>

InitialStore == [k \in {OtherKey} |-> [format |-> "parquet", rows |-> <<>>]]

\* A faulty variant: an exception of the crawl is taken for an empty result.
AfterRunScraperSwallows(failed) == "put"

\* results = asyncio.run(run_scraper(page_number)): an exception of
\* run_scraper leaves the handler.
AfterRunScraper(failed) == IF failed THEN "raised" ELSE "put"

\* A faulty variant: a missing bucket name is replaced by a default.
BucketMissingNever(bucket_name) == FALSE

\* if not bucket_name
BucketMissing(bucket_name) == ~PyTruthy(bucket_name)

NewInvocation(event) ==
    [pc |-> "start", event |-> event, page_number |-> -1, browser |-> "none",
     launches |-> 0, crawled |-> FALSE, failed |-> FALSE, results |-> <<>>,
     key |-> <<>>, writes |-> 0, wrote_after_crawl |-> FALSE, statusCode |-> 0,
     raised_at |-> "none"]

CrawlInit ==
    /\ h_kind = "crawl"
    /\ \E b \in {PyNone, PyStrV(<<>>), PyStrV(<<"bucket">>)} :
          h_env = [BUCKET_NAME |-> b, GITHUB_SECRET_ARN |-> PyNone]
    /\ h_store = InitialStore
    /\ h_puts = <<>>
    /\ h_check = <<>>
    /\ h_crawl \in [Invocations -> {NewInvocation(e) : e \in CrawlEvents}]
    /\ h_merge = <<>>
    /\ OthersIdle

\* Lines 343-354: page_number is resolved, then BUCKET_NAME is looked up.
CrawlStart(v) ==
    /\ h_crawl[v].pc = "start"
    /\ LET r == ResolvePageNumber(h_crawl[v].event) IN
       IF ~r.ok
       THEN h_crawl' = [h_crawl EXCEPT ![v].pc = "raised",
                                       ![v].raised_at = "page_number"]
       ELSE IF BucketMissing(h_env.BUCKET_NAME)
            THEN h_crawl' = [h_crawl EXCEPT ![v].pc = "returned",
                                            ![v].page_number = r.n,
                                            ![v].statusCode = 500]
            ELSE h_crawl' = [h_crawl EXCEPT ![v].pc = "launch",
                                            ![v].page_number = r.n]
    /\ UNCHANGED <<h_kind, h_env, h_store, h_puts, h_check, h_merge>>
    /\ UNCHANGED nonLambdaVars

\* run_scraper: async with async_playwright() and p.chromium.launch.
CrawlLaunch(v) ==
    /\ h_crawl[v].pc = "launch"
    /\ \/ h_crawl' = [h_crawl EXCEPT ![v].pc = "crawl", ![v].browser = "running",
                                     ![v].launches = @ + 1]
       \/ h_crawl' = [h_crawl EXCEPT ![v].pc = "raised", ![v].raised_at = "launch"]
    /\ UNCHANGED <<h_kind, h_env, h_store, h_puts, h_check, h_merge>>
    /\ UNCHANGED nonLambdaVars

\* results = await scrape_page_sequential(browser, page_number), inside try.
CrawlPage(v) ==
    /\ h_crawl[v].pc = "crawl"
    /\ \/ \E res \in CrawlResults(h_crawl[v].page_number) :
            h_crawl' = [h_crawl EXCEPT ![v].pc = "close", ![v].crawled = TRUE,
                                       ![v].results = res]
       \/ h_crawl' = [h_crawl EXCEPT ![v].pc = "close", ![v].failed = TRUE,
                                     ![v].raised_at = "crawl"]
    /\ UNCHANGED <<h_kind, h_env, h_store, h_puts, h_check, h_merge>>
    /\ UNCHANGED nonLambdaVars

\* finally: await browser.close(); the async with ends; run_scraper returns
\* results or lets the exception of the crawl out.
CrawlClose(v) ==
    /\ h_crawl[v].pc = "close"
    /\ h_crawl' = [h_crawl EXCEPT ![v].browser = PlaywrightExit("closed"),
                                  ![v].pc = AfterRunScraper(h_crawl[v].failed)]
    /\ UNCHANGED <<h_kind, h_env, h_store, h_puts, h_check, h_merge>>
    /\ UNCHANGED nonLambdaVars

\* Lines 358-386: the key and the body are built, s3.put_object writes the
\* shard (or raises) and the response is returned.
CrawlPut(v) ==
    /\ h_crawl[v].pc = "put"
    /\ LET c    == h_crawl[v]
           key  == ShardKey(SnapshotDate(c.event), c.page_number)
           body == JsonBody(c.results)
       IN  \/ /\ h_store' = PutObject(h_store, key, body)
              /\ h_puts' = Append(h_puts, [by |-> v, key |-> key, body |-> body])
              /\ h_crawl' = [h_crawl EXCEPT ![v].pc = "returned",
                                            ![v].key = key,
                                            ![v].writes = @ + 1,
                                            ![v].wrote_after_crawl = c.crawled,
                                            ![v].statusCode = 200]
           \/ /\ h_crawl' = [h_crawl EXCEPT ![v].pc = "raised",
                                            ![v].raised_at = "put_object"]
              /\ UNCHANGED <<h_store, h_puts>>
    /\ UNCHANGED <<h_kind, h_env, h_check, h_merge>>
    /\ UNCHANGED nonLambdaVars

CrawlNext ==
    \E v \in DOMAIN h_crawl :
        /\ h_kind = "crawl"
        /\ \/ CrawlStart(v) \/ CrawlLaunch(v) \/ CrawlPage(v) \/ CrawlClose(v)
           \/ CrawlPut(v)


\* ------------------------------------------- duckdb_handler.lambda_handler
\* The events of the merge: snapshot_date missing, None, "", a date, or a
\* dict that holds one of these under "snapshot_date" (wrapped).
\* The number of times the merge is invoked on the same bucket.
MergeRuns == 2

MergeEvents ==
    [snapshot_date : {PyMissing, PyNone, PyStrV(<<>>), PyStrV(GivenDate)},
     wrapped : BOOLEAN]

\* A faulty variant: a missing snapshot_date is replaced by a date.
MergeDateDefaults(event) ==
    IF event.snapshot_date.t = "str" /\ event.snapshot_date.s # <<>>
    THEN event.snapshot_date
    ELSE PyStrV(GivenDate)

\* Lines 70-72: event.get("snapshot_date"), unwrapped when it is a dict.
MergeDate(event) ==
    IF event.snapshot_date.t = "missing" THEN PyNone ELSE event.snapshot_date

\* output_key = f"database/scraped_data_{snapshot_date}.parquet"
OutputKey(date) ==
    <<"database/", "scraped_data_">> \o FormatValue(date) \o <<".parquet">>

\* A faulty variant: the glob matches the shards of every date.
ShardKeysOfAnyDate(store, date) ==
    {k \in DOMAIN store : k[1] = "snapshot_date/" /\ k[Len(k)] = ".json"}

\* The keys of the store the glob snapshot_date/{date}/*.json matches.
ShardKeys(store, date) ==
    LET prefix == <<"snapshot_date/">> \o FormatValue(date) IN
    {k \in DOMAIN store :
        /\ Len(k) > Len(prefix) + 1
        /\ SubSeq(k, 1, Len(prefix)) = prefix
        /\ k[Len(prefix) + 1] = "/events_page_"
        /\ k[Len(k)] = ".json"}

RECURSIVE ReadJsonAuto(_, _)
\* read_json_auto over the matched shards: their records, one row each.
ReadJsonAuto(store, keys) ==
    IF keys = {} THEN <<>>
    ELSE LET k == CHOOSE x \in keys : TRUE IN
         store[k].rows \o ReadJsonAuto(store, keys \ {k})

\* Another capture date the bucket holds objects of.
OtherDate == <<"2025", "11", "02">>

\* The bucket at the start of a merge: with or without a columnar object of
\* an earlier merge of the date, with or without a shard of another date, and
\* with no, one or two shards of the date.
MergeStores ==
    LET merged(st) == PutObject(st, OutputKey(PyStrV(GivenDate)),
                         [format |-> "parquet", rows |-> <<FailedRecord(1, 0)>>])
        other(st) == PutObject(st, ShardKey(PyStrV(OtherDate), 1),
                         JsonBody(<<FailedRecord(1, 0)>>))
        one(st) == PutObject(st, ShardKey(PyStrV(GivenDate), 1),
                         JsonBody(<<FailedRecord(1, 0)>>))
        two(st) == PutObject(one(st), ShardKey(PyStrV(GivenDate), 2),
                         JsonBody(<<FailedRecord(2, 0), FailedRecord(2, 1)>>))
        bases == {InitialStore, merged(InitialStore), other(InitialStore),
                  other(merged(InitialStore))}
    IN  bases \cup {one(st) : st \in bases} \cup {two(st) : st \in bases}

\* A faulty variant: the exception of the COPY leaves the handler.
CopyExceptRaises(m) == [m EXCEPT !.pc = "raised", !.raised_at = "copy"]

\* Lines 111-116: except Exception as e: return statusCode 500 with str(e).
CopyExcept(m) == [m EXCEPT !.pc = "returned", !.statusCode = 500]

\* A faulty variant: a COPY that fails leaves what it had written so far.
CopyAbortedLeavesPart(store, out) ==
    PutObject(store, out, [format |-> "parquet", rows |-> <<>>])

\* The bucket after a COPY that raised: the upload of the output object was
\* never completed, so no object was created or replaced.
CopyAborted(store, out) == store

\* The answers of the GitHub contents API to the PUT; 0 stands for no answer
\* (requests raises).
PutStatuses == {0, 200, 201, 409, 422, 500}

\* The answers of the GitHub contents API to the GET that looks for the file;
\* 0 stands for no answer (requests raises).
GetStatuses == {0, 200, 404, 500}

\* A faulty variant: a sha is sent whatever the GET answered.
UploadPayloadAlwaysSha(status) == {"message", "content", "sha"}

\* Lines 46-57: the keys of the payload of the PUT; the sha of the GET's answer
\* is added when that answer was 200.
UploadPayload(status) ==
    IF status = 200 THEN {"message", "content", "sha"} ELSE {"message", "content"}

\* A faulty variant: the status of the PUT is not looked at.
PublishAnyStatus(status) == status # 0

\* Line 61: response.status_code not in (200, 201) raises.
PublishOk(status) == status \in {200, 201}

MergeInit ==
    /\ h_kind = "merge"
    /\ \E b \in {PyNone, PyStrV(<<"bucket">>)} :
       \E a \in {PyNone, PyStrV(<<>>), PyStrV(<<"arn">>)} :
          h_env = [BUCKET_NAME |-> b, GITHUB_SECRET_ARN |-> a]
    /\ h_store \in MergeStores
    /\ h_puts = <<>>
    /\ h_check = <<>>
    /\ h_crawl = <<>>
    /\ \E e \in MergeEvents :
          h_merge = [pc |-> "start", event |-> e, date |-> PyNone,
                     copy_attempts |-> 0, writes |-> 0, downloads |-> 0,
                     secret_calls |-> 0, publish_calls |-> 0,
                     publish_status |-> 0, before |-> h_store,
                     statusCode |-> 0, raised_at |-> "none",
                     get_calls |-> 0, get_status |-> 0, payload_keys |-> {},
                     run |-> 1, prev |-> [puts |-> <<>>, store |-> h_store]]
    /\ OthersIdle

\* Lines 70-79: a missing snapshot_date is answered with 400.
MergeStart ==
    /\ h_kind = "merge" /\ h_merge.pc = "start"
    /\ LET date == MergeDate(h_merge.event) IN
       IF ~(date.t = "int" \/ PyTruthy(date))
       THEN h_merge' = [h_merge EXCEPT !.pc = "returned", !.statusCode = 400]
       ELSE h_merge' = [h_merge EXCEPT !.pc = "connect", !.date = date]
    /\ UNCHANGED <<h_kind, h_env, h_store, h_puts, h_check, h_crawl>>
    /\ UNCHANGED nonLambdaVars

\* Lines 82-100: the paths are built from the module-level bucket_name
\* (unchecked), DuckDB is connected and its extensions are loaded; an
\* exception here leaves the handler.
MergeConnect ==
    /\ h_kind = "merge" /\ h_merge.pc = "connect"
    /\ \/ h_merge' = [h_merge EXCEPT !.pc = "copy"]
       \/ h_merge' = [h_merge EXCEPT !.pc = "raised", !.raised_at = "connect"]
    /\ UNCHANGED <<h_kind, h_env, h_store, h_puts, h_check, h_crawl>>
    /\ UNCHANGED nonLambdaVars

\* Lines 102-116: COPY (SELECT * FROM read_json_auto(input)) TO output. It
\* writes the columnar object, or raises and 500 is returned; it can only
\* raise when the bucket name is unset ("s3://None/...") or no shard matches.
MergeCopy ==
    /\ h_kind = "merge" /\ h_merge.pc = "copy"
    /\ LET keys == ShardKeys(h_store, h_merge.date)
           out  == OutputKey(h_merge.date)
           body == [format |-> "parquet", rows |-> ReadJsonAuto(h_store, keys)]
           m    == [h_merge EXCEPT !.copy_attempts = @ + 1]
       IN  \/ /\ PyTruthy(h_env.BUCKET_NAME)
              /\ keys # {}
              /\ h_store' = PutObject(h_store, out, body)
              /\ h_puts' = Append(h_puts, [by |-> 0, key |-> out, body |-> body])
              /\ h_merge' = [m EXCEPT !.pc = "download", !.writes = @ + 1]
           \/ /\ h_merge' = CopyExcept(m)
              /\ h_store' = CopyAborted(h_store, out)
              /\ UNCHANGED h_puts
    /\ UNCHANGED <<h_kind, h_env, h_check, h_crawl>>
    /\ UNCHANGED nonLambdaVars

\* Line 120: s3_client.download_file(bucket_name, output_key, local_path)
MergeDownload ==
    /\ h_kind = "merge" /\ h_merge.pc = "download"
    /\ \/ h_merge' = [h_merge EXCEPT !.pc = "secret", !.downloads = @ + 1]
       \/ h_merge' = [h_merge EXCEPT !.pc = "raised", !.raised_at = "download"]
    /\ UNCHANGED <<h_kind, h_env, h_store, h_puts, h_check, h_crawl>>
    /\ UNCHANGED nonLambdaVars

\* Lines 123-132: GITHUB_SECRET_ARN is looked up; unset or empty raises
\* RuntimeError, otherwise get_secret returns the token or raises.
MergeSecret ==
    /\ h_kind = "merge" /\ h_merge.pc = "secret"
    /\ IF ~PyTruthy(h_env.GITHUB_SECRET_ARN)
       THEN h_merge' = [h_merge EXCEPT !.pc = "raised",
                                       !.raised_at = "GITHUB_SECRET_ARN"]
       ELSE \/ h_merge' = [h_merge EXCEPT !.pc = "publish", !.secret_calls = @ + 1]
            \/ h_merge' = [h_merge EXCEPT !.pc = "raised", !.secret_calls = @ + 1,
                                          !.raised_at = "get_secret"]
    /\ UNCHANGED <<h_kind, h_env, h_store, h_puts, h_check, h_crawl>>
    /\ UNCHANGED nonLambdaVars

\* Lines 133-140 and 35-57: upload_to_github is called; it encodes the file
\* and asks with a GET whether the target exists. An exception of the GET
\* leaves the handler.
MergePublish ==
    /\ h_kind = "merge" /\ h_merge.pc = "publish"
    /\ \E status \in GetStatuses :
          LET m == [h_merge EXCEPT !.get_calls = @ + 1, !.get_status = status]
          IN  IF status = 0
              THEN h_merge' = [m EXCEPT !.pc = "raised",
                                        !.raised_at = "upload_to_github"]
              ELSE h_merge' = [m EXCEPT !.pc = "put",
                                        !.payload_keys = UploadPayload(status)]
    /\ UNCHANGED <<h_kind, h_env, h_store, h_puts, h_check, h_crawl>>
    /\ UNCHANGED nonLambdaVars

\* Lines 59-66 and 142-149: the PUT of the payload; with a status of 200 or
\* 201 upload_to_github returns the answer and the handler answers 200,
\* otherwise its exception leaves the handler.
MergePublishPut ==
    /\ h_kind = "merge" /\ h_merge.pc = "put"
    /\ \E status \in PutStatuses :
          LET m == [h_merge EXCEPT !.publish_calls = @ + 1,
                                   !.publish_status = status]
          IN  IF PublishOk(status)
              THEN h_merge' = [m EXCEPT !.pc = "returned", !.statusCode = 200]
              ELSE h_merge' = [m EXCEPT !.pc = "raised",
                                        !.raised_at = "upload_to_github"]
    /\ UNCHANGED <<h_kind, h_env, h_store, h_puts, h_check, h_crawl>>
    /\ UNCHANGED nonLambdaVars

\* The merge is invoked again with the same event, on the bucket the earlier
\* invocation left; prev keeps what that invocation wrote.
MergeRerun ==
    /\ h_kind = "merge" /\ h_merge.pc \in {"returned", "raised"}
    /\ h_merge.run < MergeRuns
    /\ h_merge' = [pc |-> "start", event |-> h_merge.event, date |-> PyNone,
                   copy_attempts |-> 0, writes |-> 0, downloads |-> 0,
                   secret_calls |-> 0, publish_calls |-> 0,
                   publish_status |-> 0, before |-> h_store,
                   statusCode |-> 0, raised_at |-> "none",
                   get_calls |-> 0, get_status |-> 0, payload_keys |-> {},
                   run |-> h_merge.run + 1,
                   prev |-> [puts |-> h_puts, store |-> h_store]]
    /\ h_puts' = <<>>
    /\ UNCHANGED <<h_kind, h_env, h_store, h_check, h_crawl>>
    /\ UNCHANGED nonLambdaVars

MergeNext ==
    \/ MergeStart \/ MergeConnect \/ MergeCopy \/ MergeDownload \/ MergeSecret
    \/ MergePublish \/ MergePublishPut \/ MergeRerun

\* ------------------------------------------------------ the three handlers
LambdaInit == CheckInit \/ CrawlInit \/ MergeInit

LambdaNext == CheckNext \/ CrawlNext \/ MergeNext

SpecLambda == LambdaInit /\ [][LambdaNext]_vars


\* The browser-driving programs together: the three handlers and the batch.
SpecBrowsers == (LambdaInit \/ BatchInit) /\ [][LambdaNext \/ BatchNext]_vars

\* --------------------------------------------- properties of the handlers
CheckEnded == h_kind = "check" /\ h_check.pc \in {"returned", "raised"}

\* C13: when the listing shows no last-page control and neither the browser
\* nor the network fails, page discovery returns last_page = 1.
C13_AbsentControlGivesOne ==
    (CheckEnded /\ ~h_check.listing.last /\ h_check.fault = "none") =>
        /\ h_check.pc = "returned"
        /\ h_check.last_page = 1

\* C14: a response of page discovery holds last_page >= 1 and page_numbers
\* = 1, 2, ..., last_page, whatever the last-page control holds.
C14_PageNumbersFromOne ==
    (h_kind = "check" /\ h_check.pc = "returned") =>
        /\ h_check.last_page >= 1
        /\ Len(h_check.page_numbers) = h_check.last_page
        /\ \A j \in 1..Len(h_check.page_numbers) : h_check.page_numbers[j] = j

CrawlEnded(c) == c.pc \in {"returned", "raised"}

\* C15: an invocation launches at most one browser, exactly one once the
\* launch returned, and no browser is running when the invocation has ended,
\* however it ended.
C15_OneBrowserClosed ==
    /\ h_kind = "check" =>
          /\ h_check.launches <= 1
          /\ h_check.pc \notin {"launch"} /\ h_check.raised_at # "launch"
                => h_check.launches = 1
          /\ CheckEnded => h_check.browser # "running"
    /\ h_kind = "crawl" =>
          \A v \in DOMAIN h_crawl :
              /\ h_crawl[v].launches <= 1
              /\ (h_crawl[v].crawled \/ h_crawl[v].failed) => h_crawl[v].launches = 1
              /\ CrawlEnded(h_crawl[v]) => h_crawl[v].browser # "running"
    /\ b_launches <= 1
    /\ b_pc \notin {"idle", "launch"} /\ b_last_page > 0 => b_launches = 1
    /\ b_pc = "done" => b_browser # "running"

\* Page discovery timed out waiting for the paginator after its browser was
\* launched, and the invocation has ended.
C15_Witness ==
    /\ CheckEnded
    /\ h_check.raised_at = "wait_paginator"
    /\ h_check.launches = 1
    /\ h_check.browser = "closed"

\* C16: a browsing context opened by a crawl is closed when the function that
\* opened it has ended, by return or by exception.
C16_ContextsClosed ==
    /\ (strategy = "sequential" /\ pc \in {"done", "raised"}) => ~context_open
    /\ p_pc = "done" => ~p_context_open
    /\ \A t \in DOMAIN card : card[t].pc = "done" => ~card[t].context_open

\* C17: with a required configuration value unset (BUCKET_NAME for the crawl
\* and the merge, GITHUB_SECRET_ARN for the merge) an invocation launches no
\* browser, runs no merge, writes nothing, and ends with an error.
C17_MissingConfigFailsFast ==
    /\ (h_kind = "crawl" /\ ~PyTruthy(h_env.BUCKET_NAME)) =>
          \A v \in DOMAIN h_crawl :
              /\ h_crawl[v].launches = 0
              /\ h_crawl[v].writes = 0
              /\ h_crawl[v].pc = "returned" => h_crawl[v].statusCode = 500
    /\ (/\ h_kind = "merge"
        /\ ~PyTruthy(h_env.BUCKET_NAME) \/ ~PyTruthy(h_env.GITHUB_SECRET_ARN)
        /\ h_merge.pc \notin {"start"}
        /\ h_merge.statusCode # 400) =>
          /\ h_merge.copy_attempts = 0
          /\ h_merge.writes = 0
          /\ h_merge.pc = "returned" => h_merge.statusCode = 500

PutsBy(v) == {j \in 1..Len(h_puts) : h_puts[j].by = v}

\* C18: a crawl invocation answers 200 exactly when it made one shard write,
\* and that write came after the page crawl returned; an invocation that
\* ends in an error wrote nothing.
C18_OneWriteIffOk ==
    h_kind = "crawl" =>
        \A v \in DOMAIN h_crawl :
            LET c == h_crawl[v] IN
            /\ Cardinality(PutsBy(v)) = c.writes
            /\ c.writes <= 1
            /\ c.statusCode = 200 <=> c.writes = 1
            /\ c.writes = 1 => c.wrote_after_crawl /\ c.pc = "returned"
            /\ (c.pc = "raised" \/ c.statusCode = 500) => c.writes = 0

\* One invocation answered 200 after its write, the other ended with the
\* exception of its crawl.
C18_Witness ==
    /\ h_kind = "crawl"
    /\ \E v, w \in DOMAIN h_crawl :
          /\ h_crawl[v].statusCode = 200
          /\ h_crawl[w].pc = "raised"
          /\ h_crawl[w].raised_at = "crawl"


\* text writes the number n in decimal digits, with or without a leading 0.
Writes(text, n) == text = PyStr(n) \/ text = <<"0">> \o PyStr(n)

\* The page_number the interface assigns to an event: the event itself (int),
\* its value (numeric string), the object's page_number, 1 when missing.
ExpectedPage(event, n) ==
    CASE event.kind = "int" -> n = event.self.n
      [] event.kind = "str" /\ IsDigit(event.self.s) -> Writes(event.self.s, n)
      [] event.kind = "dict" /\ event.page_number.t = "int" ->
            n = event.page_number.n
      [] event.kind = "dict" /\ event.page_number.t = "str" ->
            Writes(event.page_number.s, n)
      [] event.kind = "dict" /\ event.page_number.t = "missing" -> n = 1
      [] OTHER -> TRUE

\* C19: the handler resolves page_number as the interface says, and the shard
\* it writes has the key snapshot_date/{date}/events_page_{page_number}.json
\* with that page_number.
C19_PageNumberAndKey ==
    h_kind = "crawl" =>
        \A v \in DOMAIN h_crawl :
            LET c == h_crawl[v] IN
            /\ c.page_number # -1 => ExpectedPage(c.event, c.page_number)
            /\ \A j \in PutsBy(v) :
                  \E d \in {UtcToday, GivenDate, <<"None">>} :
                      h_puts[j].key = <<"snapshot_date/">> \o d
                          \o <<"/events_page_">> \o PyStr(c.page_number)
                          \o <<".json">>

\* A numeric-string event and an object event without page_number both led to
\* a shard write.
C19_Witness ==
    /\ h_kind = "crawl"
    /\ \E v, w \in DOMAIN h_crawl :
          /\ h_crawl[v].event.kind = "str" /\ h_crawl[v].writes = 1
          /\ h_crawl[v].page_number = MaxPage
          /\ h_crawl[w].event.kind = "dict" /\ h_crawl[w].writes = 1
          /\ h_crawl[w].event.page_number.t = "missing"

LastOf(S) == CHOOSE x \in S : \A y \in S : x >= y

PutsTo(k) == {j \in 1..Len(h_puts) : h_puts[j].key = k}

\* C20: at every moment each key of the bucket holds exactly the body of the
\* latest write to it (never a blend of two bodies), and a key nobody wrote
\* holds what it held at the start.
C20_LastWriteWins ==
    h_kind = "crawl" =>
        /\ DOMAIN h_store =
              DOMAIN InitialStore \cup {h_puts[j].key : j \in 1..Len(h_puts)}
        /\ \A k \in DOMAIN h_store :
              IF PutsTo(k) = {} THEN h_store[k] = InitialStore[k]
              ELSE h_store[k] = h_puts[LastOf(PutsTo(k))].body

\* The shard of one (date, page_number) was written twice, with different
\* content.
C20_Witness ==
    /\ h_kind = "crawl"
    /\ Len(h_puts) = 2
    /\ h_puts[1].key = h_puts[2].key
    /\ h_puts[1].body # h_puts[2].body
    /\ h_puts[1].body.rows # <<>>


\* ------------------------------------------------- properties of the merge
\* The event carries no snapshot_date: absent, None or "".
NoSnapshotDate(event) ==
    event.snapshot_date \in {PyMissing, PyNone, PyStrV(<<>>)}

\* C21: a merge invoked without a snapshot_date answers 400, and it has read
\* no shard, written no columnar object, downloaded nothing and made no
\* secret or publish call.
C21_MissingDateIs400 ==
    (h_kind = "merge" /\ NoSnapshotDate(h_merge.event)) =>
        /\ h_merge.pc \in {"start", "returned"}
        /\ h_merge.pc = "returned" => h_merge.statusCode = 400
        /\ h_merge.copy_attempts = 0
        /\ h_merge.writes = 0
        /\ h_merge.downloads = 0
        /\ h_merge.secret_calls = 0
        /\ h_merge.publish_calls = 0
        /\ h_puts = <<>>
        /\ h_store = h_merge.before

\* A merge without snapshot_date has answered 400 while the bucket held shards.
C21_Witness ==
    /\ h_kind = "merge"
    /\ h_merge.event.snapshot_date = PyStrV(<<>>)
    /\ h_merge.pc = "returned"
    /\ h_merge.statusCode = 400
    /\ \E k \in DOMAIN h_store : k[1] = "snapshot_date/"

\* C22: when the COPY raises, the invocation returns 500 (it does not raise),
\* no download, secret or publish call follows, and every shard the bucket
\* held before the invocation is as it was.
C22_CopyErrorIs500 ==
    (h_kind = "merge" /\ h_merge.copy_attempts = 1 /\ h_merge.writes = 0) =>
        /\ h_merge.pc = "returned"
        /\ h_merge.statusCode = 500
        /\ h_merge.downloads = 0
        /\ h_merge.secret_calls = 0
        /\ h_merge.publish_calls = 0
        /\ \A k \in DOMAIN h_merge.before :
              k[1] = "snapshot_date/" =>
                  k \in DOMAIN h_store /\ h_store[k] = h_merge.before[k]

\* The COPY raised in a bucket that holds two shards of the date.
C22_Witness ==
    /\ h_kind = "merge"
    /\ h_merge.copy_attempts = 1 /\ h_merge.writes = 0
    /\ h_merge.date = PyStrV(GivenDate)
    /\ ShardKey(PyStrV(GivenDate), 2) \in DOMAIN h_store

\* Key k names a shard of capture date d.
IsShardOf(k, d) ==
    /\ Len(k) > Len(d) + 1
    /\ k[1] = "snapshot_date/"
    /\ SubSeq(k, 2, Len(d) + 1) = d
    /\ k[Len(d) + 2] = "/events_page_"

RECURSIVE RecordCount(_, _)
\* The number of records the shards under keys hold together.
RecordCount(store, keys) ==
    IF keys = {} THEN 0
    ELSE LET k == CHOOSE x \in keys : TRUE IN
         Len(store[k].rows) + RecordCount(store, keys \ {k})

\* C23: a merge whose COPY succeeded for date D wrote one columnar object,
\* under the key of D, with as many rows as the shards under snapshot_date/D/
\* held records at that time; no other columnar object appeared or changed.
C23_RowCountIsSum ==
    (h_kind = "merge" /\ h_merge.writes >= 1) =>
        LET d == h_merge.date.s
            out == <<"database/", "scraped_data_">> \o d \o <<".parquet">>
        IN  /\ h_merge.writes = 1
            /\ Len(h_puts) = 1
            /\ h_puts[1].key = out
            /\ Len(h_puts[1].body.rows) =
                  RecordCount(h_merge.before,
                      {k \in DOMAIN h_merge.before : IsShardOf(k, d)})
            /\ h_store[out] = h_puts[1].body
            /\ \A k \in DOMAIN h_store \ {out} :
                  k \in DOMAIN h_merge.before /\ h_store[k] = h_merge.before[k]

\* A merge wrote three rows from the two shards of its date while the bucket
\* also held a shard of another date.
C23_Witness ==
    /\ h_kind = "merge"
    /\ h_merge.writes = 1
    /\ Len(h_puts[1].body.rows) = 3
    /\ ShardKey(PyStrV(OtherDate), 1) \in DOMAIN h_store

\* C24: when the publish call is answered with a status other than 200 or
\* 201 the invocation ends with an exception, not with a 200 response, and
\* the bucket is what the COPY left: the shards and the merged object.
C24_PublishFailureIsFatal ==
    (/\ h_kind = "merge"
     /\ h_merge.publish_calls = 1
     /\ h_merge.publish_status \notin {200, 201}) =>
        /\ h_merge.pc = "raised"
        /\ h_merge.statusCode # 200
        /\ Len(h_puts) = 1
        /\ h_store = PutObject(h_merge.before, h_puts[1].key, h_puts[1].body)

\* The publish call was answered 422 after the merged object was written.
C24_Witness ==
    /\ h_kind = "merge"
    /\ h_merge.publish_calls = 1
    /\ h_merge.publish_status = 422
    /\ h_merge.writes = 1

Target(c) == <<FormatValue(SnapshotDate(c.event)), c.page_number>>

\* C25: two crawl invocations with different (snapshot_date, page_number)
\* targets, their steps interleaved in any order, both end with their shard
\* in the bucket, each shard holding the records of its own invocation, and
\* neither wrote the key of the other.
C25_DisjointInvocations ==
    h_kind = "crawl" =>
        \A v, w \in DOMAIN h_crawl :
            (/\ v # w
             /\ h_crawl[v].statusCode = 200
             /\ h_crawl[w].statusCode = 200
             /\ Target(h_crawl[v]) # Target(h_crawl[w])) =>
                /\ h_crawl[v].key \in DOMAIN h_store
                /\ h_store[h_crawl[v].key] = JsonBody(h_crawl[v].results)
                /\ \A j \in 1..Len(h_puts) :
                      h_puts[j].key = h_crawl[v].key => h_puts[j].by = v

\* Two invocations for different pages both answered 200, the second having
\* written its shard before the first, each with records of its own.
C25_Witness ==
    /\ h_kind = "crawl"
    /\ Len(h_puts) = 2
    /\ h_puts[1].by = 2 /\ h_puts[2].by = 1
    /\ h_crawl[1].statusCode = 200 /\ h_crawl[2].statusCode = 200
    /\ h_crawl[1].page_number # h_crawl[2].page_number
    /\ h_crawl[1].results # <<>> /\ h_crawl[2].results # <<>>


\* ------------------------------------- order of the sequential card cycles
RecoveryGotos == {"recovery_goto_timeout", "recovery_goto_exception"}

\* The step appends one record, of the card in hand.
AppendsRecordOfCard ==
    /\ Len(results') = Len(results) + 1
    /\ results'[Len(results')].card_index = i
    /\ SubSeq(results', 1, Len(results)) = results

\* One step of the sequential crawl keeps the order of a card's cycle.
CardOrderStep ==
    strategy = "sequential" =>
        \* detail loaded only after the activation
        /\ (pc' = "wait_detail" /\ pc # "wait_detail") => pc = "activate"
        \* extraction only after the detail container loaded
        /\ (pc' = "extract" /\ pc # "extract") => pc = "wait_detail"
        \* the record is appended when the extraction returns, then go_back
        /\ (pc' = "go_back" /\ pc # "go_back") =>
              pc = "extract" /\ AppendsRecordOfCard
        \* FAILED: the failed record of the card is appended
        /\ (pc' \in RecoveryGotos /\ pc \notin RecoveryGotos) =>
              /\ pc \in {"activate", "wait_detail", "extract", "go_back",
                         "scroll_back"}
              /\ AppendsRecordOfCard
              /\ results'[Len(results')] = FailedRecord(page_number, i)
        \* the loop moves by one card, and only from RETURNED (go_back and
        \* scroll done) or FAILED (recovery done), with the card's record made
        /\ i' # i =>
              /\ i' = i + 1
              /\ pc \in {"scroll_back", "recovery_scroll"}
              /\ pc = "scroll_back" => hist.failed = {} \/
                    \A f \in hist.failed : f.card # i
              /\ pc = "recovery_scroll" => \E f \in hist.failed : f.card = i
              /\ \E j \in 1..Len(results) : results[j].card_index = i
        \* a card is activated from the count or from the end of the card before
        /\ (pc' = "activate" /\ pc # "activate") =>
              \/ pc = "count_cards" /\ i' = 0
              \/ pc \in {"scroll_back", "recovery_scroll"} /\ i' = i + 1

\* C26: in the sequential crawl a card goes through activate, detail loaded,
\* extract, record appended, return to the listing, and ends RETURNED or
\* FAILED; the next card is activated only after that end, one card at a time.
C26_CardOrder == [][CardOrderStep]_vars

\* The second card is being extracted after the first one was returned from
\* and had its record appended.
C26_Witness ==
    /\ strategy = "sequential"
    /\ pc = "extract"
    /\ i = 1
    /\ Len(results) = 1
    /\ hist.failed = {}

\* One step of the sequential crawl restores the listing before the next card.
ListingRestoredStep ==
    strategy = "sequential" =>
        \* the next card is taken when a settle-scroll has just finished
        /\ (i' # i \/ (pc' = "close" /\ pc # "close" /\ pc # "count_cards")) =>
              pc \in {"scroll_back", "recovery_scroll"}
        \* the settle-scroll follows a go_back that succeeded
        /\ (pc' = "scroll_back" /\ pc # "scroll_back") => pc = "go_back"
        \* or a fresh reload that succeeded
        /\ (pc' = "recovery_scroll" /\ pc # "recovery_scroll") =>
              pc \in RecoveryGotos
        \* go_back is tried at most 3 times, and when it gives up the reload
        \* is started
        /\ pc = "go_back" =>
              /\ attempt \in 1..3
              /\ pc' \in {"go_back", "scroll_back"} \cup RecoveryGotos
        \* a failed card is followed by the reload
        /\ hist'.failed # hist.failed => pc' \in RecoveryGotos

\* C27: before a card after the first is activated the listing was restored
\* and settle-scrolled: by go_back (at most 3 attempts) and scroll, or, when
\* go_back gave up or the card failed, by a reload of the listing and scroll.
C27_ListingRestored == [][ListingRestoredStep]_vars

\* go_back gave up for the first card, the listing was reloaded and scrolled,
\* and the second card is activated.
C27_Witness ==
    /\ strategy = "sequential"
    /\ pc = "activate"
    /\ i = 1
    /\ Len(results) = 2
    /\ \E f \in hist.failed : f.card = 0


\* --------------------------------------- progress and containment in the batch
\* The batch has ended with nothing left waiting: both semaphores are back at
\* their capacity and, unless an exception ended the batch, every page task
\* and every card task ran to its return (so every card task got its slot).
BatchEnded ==
    /\ b_pc = "done"
    /\ b_last_page > 0 =>
          b_page_sem = b_page_cap /\ b_card_sem = b_card_cap
    /\ ~b_raised =>
          /\ \A p \in DOMAIN b_page : b_page[p].pc = "done"
          /\ \A k \in DOMAIN b_card : b_card[k].pc = "done"

\* C28: with page_sem held by a page task while it waits for its card tasks,
\* the batch never gets stuck: it always reaches its end, where every card
\* task has had a card slot and every page task has completed and given its
\* page slot back.
C28_NoDeadlock == <>BatchEnded

\* Two pages hold the two page slots and wait for their cards while one card
\* holds the only card slot and the other waits for it.
C28_Witness ==
    /\ b_page_cap = 2 /\ b_page_sem = 0
    /\ b_card_cap = 1 /\ b_card_sem = 0
    /\ \A p \in DOMAIN b_page : b_page[p].pc = "gather"
    /\ \E k, w \in DOMAIN b_card :
          /\ k[1] # w[1]
          /\ b_card[k].pc = "attempts"
          /\ b_card[w].pc = "acquire"

\* The navigation of page p failed on every attempt.
NavFailed(p) == b_page[p].result = "empty"

\* C29: a page of the batch whose listing navigation failed on all attempts
\* returned an empty result: its context is closed, its page slot is given
\* back, no card task and no shard exist for it, and the batch is not ended
\* by it (an exception of the batch comes from another page).
C29_NavFailureContained ==
    /\ \A p \in DOMAIN b_page :
          NavFailed(p) =>
              /\ b_page[p].pc = "done"
              /\ ~b_page[p].context_open
              /\ CardsOf(p) = {}
              /\ p \notin DOMAIN b_saved
    /\ b_pc \notin {"launch", "detect"} /\ ~b_raised =>
          b_page_sem + Cardinality(PagesInside) = b_page_cap
    /\ (b_raised /\ DOMAIN b_page # {}) =>
          \E q \in DOMAIN b_page : ~NavFailed(q) /\ b_page[q].pc = "raised"

\* Page 1 failed to load, page 2 wrote its shard, and the batch ended well.
C29_Witness ==
    /\ b_pc = "done"
    /\ ~b_raised
    /\ DOMAIN b_page = {1, 2}
    /\ NavFailed(1)
    /\ 2 \in DOMAIN b_saved
    /\ b_page_sem = b_page_cap


\* ------------------------------------------------ the date of the shard keys
\* The {snapshot_date} part of a shard key.
KeyDate(k) ==
    LET idx == CHOOSE j \in 1..Len(k) : k[j] = "/events_page_" IN
    SubSeq(k, 2, idx - 1)

\* d is written as generate_snapshot_date writes a date: year, month and day
\* with nothing between them ("%Y%m%d").
HasGeneratedFormat(d) ==
    Len(d) = Len(GivenDate) /\ \A j \in 1..Len(d) : d[j] # "-"

\* The shard writes of the crawl invocations.
CrawlPuts == {j \in 1..Len(h_puts) : h_puts[j].by # 0}

\* C31: the date in every shard key the crawl handler writes has the format
\* of generate_snapshot_date, whether it came with the event or was computed
\* by the handler, and the merge invoked with the generated date finds the
\* shard.
C31_OneDateFormat ==
    h_kind = "crawl" =>
        \A j \in CrawlPuts :
            /\ HasGeneratedFormat(KeyDate(h_puts[j].key))
            /\ h_puts[j].key \in ShardKeys(h_store, PyStrV(GivenDate))

\* C35: the date in every shard key written is the snapshot_date string of
\* the event or the UTC date the handler computed, never a stand-in for a
\* missing value.
C35_DateNeverPlaceholder ==
    h_kind = "crawl" =>
        \A j \in CrawlPuts :
            LET e == h_crawl[h_puts[j].by].event
                d == KeyDate(h_puts[j].key)
            IN  /\ d # <<"None">>
                /\ \/ d = UtcToday
                   \/ e.kind = "dict" /\ e.snapshot_date.t = "str"
                                      /\ d = e.snapshot_date.s


\* ------------------------------------------ detail_url of the appended record
\* The record of the current card is appended on the return of
\* scrape_inner_page.
AppendsAfterExtract ==
    /\ pc = "extract"
    /\ pc' = "go_back"
    /\ Len(results') = Len(results) + 1

\* C34: in the sequential crawl the record appended on the return of the
\* extraction has a non-null detail_url exactly when the in-page read handed
\* back a data object; with the all-null payload (container missing, error,
\* retries exhausted) detail_url is null too and every extraction field is
\* null, although the detail view was reached.
DetailUrlStep ==
    AppendsAfterExtract =>
        LET rec == results'[Len(results')] IN
        /\ rec.detail_url # Null <=> hist'.cyc_data
        /\ hist'.cyc_data => rec.detail_url = DetailUrl
        /\ ~hist'.cyc_data => rec = FailedRecord(page_number, i)

C34_DetailUrlIffData == [][DetailUrlStep]_vars

\* The detail view of a card was reached, its read degraded to the all-null
\* payload and the record appended for it has a null detail_url.
C34_Witness ==
    /\ pc = "go_back"
    /\ hist.failed = {}
    /\ ~hist.cyc_data
    /\ hist.cyc_read = "empty"
    /\ Len(results) = i + 1
    /\ results[Len(results)].detail_url = Null


\* ------------------------------------------------ contexts open at one time
\* The contexts of the batch crawl that were opened and not closed, while
\* their browser runs.
OpenContexts ==
    IF b_browser = "running"
    THEN Cardinality({p \in DOMAIN b_page : b_page[p].context_open})
         + Cardinality({k \in DOMAIN b_card : b_card[k].context_open})
    ELSE 0

\* C36: with a page semaphore of capacity P and a card semaphore of capacity
\* C, at most P + C contexts are open at the same time, in every interleaving
\* of the page and card tasks.
C36_ContextsBounded == OpenContexts <= b_page_cap + b_card_cap


\* ------------------------------------------------------- the publish step
\* C32: the publish step first asks with one GET whether the target exists
\* and then, once that was answered, sends exactly one PUT; the PUT carries a
\* sha exactly when the GET answered 200; and the handler returns its 200
\* with the reference of the published file exactly when the PUT answered 200
\* or 201.
C32_CheckThenOnePut ==
    h_kind = "merge" =>
        /\ h_merge.get_calls <= 1
        /\ h_merge.publish_calls <= h_merge.get_calls
        /\ h_merge.pc = "put" =>
              /\ h_merge.get_calls = 1
              /\ h_merge.get_status # 0
              /\ h_merge.publish_calls = 0
        /\ (h_merge.get_calls = 1 /\ h_merge.get_status # 0
                /\ h_merge.pc \in {"returned", "raised"}) =>
              h_merge.publish_calls = 1
        /\ h_merge.publish_calls = 1 =>
              /\ {"message", "content"} \subseteq h_merge.payload_keys
              /\ "sha" \in h_merge.payload_keys <=> h_merge.get_status = 200
        /\ (h_merge.pc = "returned" /\ h_merge.statusCode = 200) <=>
              (h_merge.publish_calls = 1 /\ h_merge.publish_status \in {200, 201})

\* The GET found no file, the PUT went out without a sha and was answered
\* 201, and the handler returned.
C32_Witness ==
    /\ h_kind = "merge"
    /\ h_merge.get_status = 404
    /\ h_merge.publish_calls = 1
    /\ "sha" \notin h_merge.payload_keys
    /\ h_merge.publish_status = 201
    /\ h_merge.pc = "returned"

\* ------------------------------------------------------ merging once more
\* C37: a merge of date D that runs again on the shards the earlier run
\* merged writes the same key with the same content, and the bucket is what
\* the earlier run left: no object more, none changed.
C37_MergeIdempotent ==
    (/\ h_kind = "merge"
     /\ h_merge.run >= 2
     /\ h_merge.writes >= 1
     /\ h_merge.prev.puts # <<>>) =>
        /\ Len(h_puts) = 1
        /\ Len(h_merge.prev.puts) = 1
        /\ h_puts[1].key = h_merge.prev.puts[1].key
        /\ h_puts[1].body = h_merge.prev.puts[1].body
        /\ DOMAIN h_store = DOMAIN h_merge.prev.store
        /\ h_store = h_merge.prev.store

\* The second merge of the date wrote the three rows of its two shards over
\* the object the first merge had written.
C37_Witness ==
    /\ h_kind = "merge"
    /\ h_merge.run = 2
    /\ h_merge.writes = 1
    /\ h_merge.prev.puts # <<>>
    /\ Len(h_puts[1].body.rows) = 3
    /\ h_store[h_puts[1].key] = h_merge.prev.puts[1].body


\* ------------------------------------------------------- scroll_to_bottom
\* async def scroll_to_bottom(page, distance=500, timeout_ms=1000)
distance == 500

\* Largest height of a page when the scroll starts, in steps of distance.
MaxHeightSteps == 2
\* Largest number of times lazy-loaded content makes the page taller.
MaxGrowths == 2

\* The heights a page has when the scroll starts: none, whole numbers of
\* steps and the heights halfway between them.
PageHeights == {(distance * j) \div 2 : j \in 0..(2 * MaxHeightSteps)}

\* By how much a page grows at once: less than a step, a step, more than one.
Growths == {(distance * j) \div 2 : j \in 1..3}

\* A faulty variant: the scroll stops once it is past the height.
ScrollEndsWhenPast(total, height) == total > height

\* if (totalHeight >= scrollHeight)
ScrollEnds(total, height) == total >= height

\* page.evaluate starts the script: totalHeight = 0 and the interval timer
\* is set.
ScrollInit ==
    /\ s_pc = "ticking"
    /\ s_totalHeight = 0
    /\ s_scrollHeight \in PageHeights
    /\ s_reads = <<>>
    /\ s_grows = 0
    /\ s_waits = 0
    /\ RetryIdle
    /\ InnerIdle
    /\ SeqIdle
    /\ strategy = "none"
    /\ ConcIdle
    /\ BatchIdle
    /\ LambdaIdle

\* One firing of the interval timer: scrollHeight is read, the window is
\* scrolled by distance, totalHeight grows by distance and, when it reached
\* the height read, the timer is cleared and the promise resolved.
ScrollTick ==
    /\ s_pc = "ticking"
    /\ s_reads' = Append(s_reads, s_scrollHeight)
    /\ s_totalHeight' = s_totalHeight + distance
    /\ s_pc' = IF ScrollEnds(s_totalHeight + distance, s_scrollHeight)
               THEN "settle" ELSE "ticking"
    /\ UNCHANGED <<s_scrollHeight, s_grows, s_waits>>
    /\ UNCHANGED <<retryVars, innerVars, seqVars, concVars, batchVars, lambdaVars>>

\* Lazy-loaded content arrives and the page gets taller, between two ticks or
\* during the settle delay.
ScrollGrow ==
    /\ s_pc \in {"ticking", "settle"}
    /\ s_grows < MaxGrowths
    /\ \E g \in Growths : s_scrollHeight' = s_scrollHeight + g
    /\ s_grows' = s_grows + 1
    /\ UNCHANGED <<s_pc, s_totalHeight, s_reads, s_waits>>
    /\ UNCHANGED <<retryVars, innerVars, seqVars, concVars, batchVars, lambdaVars>>

\* await page.wait_for_timeout(timeout_ms), once page.evaluate returned.
ScrollSettle ==
    /\ s_pc = "settle"
    /\ s_waits' = s_waits + 1
    /\ s_pc' = "done"
    /\ UNCHANGED <<s_totalHeight, s_scrollHeight, s_reads, s_grows>>
    /\ UNCHANGED <<retryVars, innerVars, seqVars, concVars, batchVars, lambdaVars>>

ScrollNext == ScrollTick \/ ScrollGrow \/ ScrollSettle

\* The timer fires every 200 ms until it is cleared and the settle delay
\* elapses, so a tick or a delay that is due is taken.
SpecScroll ==
    ScrollInit /\ [][ScrollNext]_vars /\ WF_vars(ScrollTick) /\ WF_vars(ScrollSettle)

\* The scroll steps made so far.
ScrollSteps == Len(s_reads)

ScrollStopped == s_pc \in {"settle", "done"}

\* Each tick adds distance; the scroll stops at the first tick k with
\* distance * k >= the height read at that tick, so after one step at least;
\* on a page of constant height H > 0 that is k = ceil(H / distance).
ScrollInv ==
    /\ s_totalHeight = distance * ScrollSteps
    /\ \A k \in 1..(ScrollSteps - 1) : distance * k < s_reads[k]
    /\ ScrollStopped =>
          /\ ScrollSteps >= 1
          /\ distance * ScrollSteps >= s_reads[ScrollSteps]
    /\ (s_pc = "ticking" /\ ScrollSteps >= 1) =>
          distance * ScrollSteps < s_reads[ScrollSteps]
    /\ (ScrollStopped /\ s_grows = 0 /\ s_scrollHeight > 0) =>
          /\ distance * ScrollSteps >= s_scrollHeight
          /\ distance * (ScrollSteps - 1) < s_scrollHeight
    /\ s_waits = IF s_pc = "done" THEN 1 ELSE 0

\* The settle delay starts when the scroll has stopped, and no scroll step
\* follows it.
ScrollStep ==
    /\ s_waits' # s_waits => (s_pc = "settle" /\ s_reads' = s_reads)
    /\ s_reads' # s_reads => (s_waits = 0 /\ s_waits' = 0)

\* C33: the settle-scroll advances by 500 per tick, makes at least one step
\* and stops at the first tick k at which 500 * k >= the height read at that
\* tick (k = ceil(H / 500) for a constant height H > 0); it ends for every
\* page whose height stops growing; and the settle delay starts only after
\* the last scroll step.
C33_SettleScroll == []ScrollInv /\ [][ScrollStep]_vars /\ <>(s_pc = "done")

\* A page of constant height 750 was scrolled in ceil(750 / 500) = 2 steps and
\* the settle delay has passed.
C33_Witness ==
    /\ s_pc = "done"
    /\ s_grows = 0
    /\ s_scrollHeight = distance + distance \div 2
    /\ ScrollSteps = 2
    /\ s_waits = 1

====
